---- MODULE Spec2Model ----
(***************************************************************************)
(* The overnight test orchestrator (test/scripts/overnight_test_runner.py) *)
(* as a state machine.  One thread of control runs __main__ ->             *)
(* run_all_tests -> run_test; pc is its position.  The device, the         *)
(* simulator, the file system and the operator are the environment: every  *)
(* remote call, file write and keyboard interrupt is a nondeterministic    *)
(* choice over the outcomes the code distinguishes.                        *)
(*                                                                         *)
(* Units: time is counted in sampling ticks (one pass of the sampling loop *)
(* that is due a sample, SAMPLE_INTERVAL apart); scope ratios are in       *)
(* tenths (50 is 5.0:1) and rode lengths in decimetres (1 is 0.1 m).       *)
(* Python dicts are functions with a domain of keys, read with Get as      *)
(* dict.get reads them.                                                    *)
(***************************************************************************)
EXTENDS Integers, Sequences, FiniteSets, TLC

(* ---- bounds ---- *)

\* TEST_TIMEOUT / SAMPLE_INTERVAL (600 s / 0.5 s in the source) in ticks.
TimeoutTicks == 3

\* The stall threshold of the specification (20 consecutive ticks there).
StallThreshold == 1

\* The lines LogSpec lets the session write to TEST_LOG.md.
MaxLogLines == 5

(* ---- program constants ---- *)

WIND_SPEEDS == <<4, 8, 12, 18, 20, 25>>

DEPTHS == <<3, 5, 8, 12>>

TEST_TYPES == <<"autoDrop", "autoRetrieve">>

\* Spec follows a session whose matrix is cut to the first wind speed and
\* the first depth; MatrixSpec follows run_all_tests over the whole matrix,
\* with run_test as one step.
SessionWinds == SubSeq(WIND_SPEEDS, 1, 1)

SessionDepths == SubSeq(DEPTHS, 1, 1)

\* len(WIND_SPEEDS) * len(DEPTHS) * len(TEST_TYPES)
Total(winds, depths) == Len(winds) * Len(depths) * Len(TEST_TYPES)

total_tests == Total(SessionWinds, SessionDepths)

\* scope >= 5.0
ScopeTarget == 50

\* rode <= 0.1
RodeEpsilon == 1

\* range(5) in restart_chain_controller
ReconnectAttempts == 5

(* ---- Python helpers ---- *)

EmptyDict == [k \in {} |-> 0]

\* dict.get(key, default)
Get(d, k, default) == IF k \in DOMAIN d THEN d[k] ELSE default

Last(s) == s[Len(s)]

IsPrefix(s, t) == Len(s) <= Len(t) /\ SubSeq(t, 1, Len(s)) = s

\* for test_type in TEST_TYPES: test_matrix.append((wind, depth, test_type))
RECURSIVE TypeLoop(_, _, _)
TypeLoop(wind, depth, k) ==
    IF k > Len(TEST_TYPES) THEN <<>>
    ELSE <<[wind |-> wind, depth |-> depth, test_type |-> TEST_TYPES[k]]>>
         \o TypeLoop(wind, depth, k + 1)

\* for depth in DEPTHS
RECURSIVE DepthLoop(_, _, _)
DepthLoop(depths, wind, j) ==
    IF j > Len(depths) THEN <<>>
    ELSE TypeLoop(wind, depths[j], 1) \o DepthLoop(depths, wind, j + 1)

\* WindLoop with the loops over wind and depth exchanged: depth outermost.
WindLoop_DepthOutermost(winds, depths, i) ==
    [n \in 1..Total(winds, depths) |->
        [wind |-> winds[(((n - 1) \div Len(TEST_TYPES)) % Len(winds)) + 1],
         depth |-> depths[((n - 1) \div (Len(TEST_TYPES) * Len(winds))) + 1],
         test_type |-> TEST_TYPES[((n - 1) % Len(TEST_TYPES)) + 1]]]

\* for wind in WIND_SPEEDS
RECURSIVE WindLoop(_, _, _)
WindLoop(winds, depths, i) ==
    IF i > Len(winds) THEN <<>>
    ELSE DepthLoop(depths, winds[i], 1) \o WindLoop(winds, depths, i + 1)

test_matrix == WindLoop(SessionWinds, SessionDepths, 1)

(* ---- what the environment can answer ---- *)

\* The simulator-state blobs a read can return.
SimReadings ==
    { [scopeRatio |-> 50, rodeDeployed |-> 250],
      [scopeRatio |-> 0, rodeDeployed |-> 1] }

\* How the server answers a call made with run_test's token.
Responses == {"ok", "transport", "unauthorized"}

\* Strings the code takes apart are sequences of characters.
StartsWith(str, prefix) == IsPrefix(prefix, str)

\* The $source tags a rodeDeployed read may carry: the chain controller's
\* websocket, none, another source, and two near misses of 'ws.'.
SourceTags ==
    {<<"w", "s", ".", "d">>, <<>>, <<"n", "2", "k">>, <<"w", "s">>,
     <<"x", "w", "s", ".">>}

\* What one health check meets: whether get_auth_token gave a token, whether
\* the GET and its parse went through, and data.get('$source', '').
HealthReads ==
    {[token |-> FALSE, status |-> "failed", source |-> <<>>],
     [token |-> TRUE, status |-> "failed", source |-> <<>>]}
    \cup {[token |-> TRUE, status |-> "ok", source |-> tag] : tag \in SourceTags}

\* check_chain_controller taking any non-empty $source for the controller.
check_chain_controller_AnySource(read) ==
    /\ read.token
    /\ read.status = "ok"
    /\ read.source # <<>>

\* check_chain_controller (lines 111-130), its first result: False without a
\* token, False on any exception, source.startswith('ws.') otherwise.
check_chain_controller(read) ==
    /\ read.token
    /\ read.status = "ok"
    /\ StartsWith(read.source, <<"w", "s", ".">>)

VARIABLES
    pc,               \* position of the thread of control
    caller,           \* who called restart_chain_controller
    attempt,          \* loop variable of restart_chain_controller's poll loop
    test_num,         \* run_all_tests' test_num
    tests_completed,  \* the global counters
    tests_passed,
    tests_failed,
    progress,         \* content of PROGRESS.txt
    raw_data,         \* the records written under raw_data/, in write order
    files,            \* the files under raw_data/: name -> content
    token,            \* tokens run_test has acquired for the current TestCase
    samples,          \* run_test's samples
    elapsed,          \* time.time() - test_start, in ticks
    endReason,        \* history: how the sampling loop of this TestCase ended
    misses,           \* history: consecutive ticks without a Sample
    authRejected,     \* history: the call just made failed on a 401
    interrupted,      \* history: the operator has sent an interrupt
    sampleInt,        \* history: samples at the last interrupt of the loop
    abortAt,          \* history: where the exception (the SystemExit of
                      \* sys.exit too) that left run_all_tests rose
    lastHealth,       \* history: the read of ensure_chain_controller's check
    controllerOk,     \* history: ensure_chain_controller returned True
    phases,           \* history: the phases this TestCase has entered
    simReset,         \* history: what reset_simulation returned, kept until
                      \* the sampling loop starts
    unstopped,        \* history: a command has been accepted and no
                      \* stop_chain.py run has exited 0 since
    rodeReset,        \* history: reset_anchor.py has verified the rode at
                      \* 0 m in this test case, kept until the sampling
                      \* loop starts
    helperExit,       \* history: "failed" once stop_chain.py or
                      \* reset_anchor.py has exited with failure, kept until
                      \* the sampling loop starts
    mx_pc,            \* MatrixSpec: position in run_all_tests, lines 519-545
    mx_matrix,        \* MatrixSpec: test_matrix
    mx_pos,           \* MatrixSpec: index of the for loop of line 529
    mx_num,           \* MatrixSpec: test_num
    mx_ran,           \* MatrixSpec history: the arguments of each run_test call
    sim_config,       \* ConfigSpec: the simulator's configuration
    cfg_args,         \* ConfigSpec history: arguments of the last apply that
                      \* reached the simulator, <<>> before any
    cfg_once,         \* ConfigSpec history: what the simulator reported after
                      \* the first apply of those arguments
    cfg_twice,        \* ConfigSpec history: the last apply repeated them
    cfg_result,       \* ConfigSpec: what configure_environment returned last
    log_pc,           \* LogSpec: "start" before setup_session, then "ready"
    test_log,         \* LogSpec: the lines of TEST_LOG.md
    progress_file,    \* LogSpec: the lines of PROGRESS.txt
    cs_pc,            \* SampleSpec: "read", "collect", then "done"
    cs_reads,         \* SampleSpec: what the four reads of the tick returned
    cs_sample,        \* SampleSpec: what collect_sample returned
    ra_pc,            \* ResetSpec: "start", "put", "poll", then "done"
    ra_attempt,       \* ResetSpec: the polls made after the reset PUT
    ra_misses,        \* ResetSpec: history, how many of them read nothing
    ra_last,          \* ResetSpec: history, what the latest poll read
    ra_put,           \* ResetSpec: the reset PUT was accepted
    ra_result,        \* ResetSpec: what main returned
    lg_pc,            \* CollectSpec: "loop", then "done"
    lg_elapsed,       \* CollectSpec: seconds since start_time
    consecutive_none_count,
                      \* CollectSpec: the loop's count of failed reads
    lg_run,           \* CollectSpec: history, failed reads since the last
                      \* good one
    lg_missed,        \* CollectSpec: history, failed reads in all
    lg_end,           \* CollectSpec: "early" or "duration" once the loop is
                      \* left
    last_motor_action,
                      \* CollectSpec: when check_and_engage was last called
    speed_monitor,    \* CollectSpec: the SpeedMonitor of the loop
    motor_log,        \* CollectSpec: history of the motor requests
    su_pc,            \* SuiteSpec: position in main
    wind_speeds,      \* SuiteSpec: the list the name is bound to
    su_wind,          \* SuiteSpec: wind_speed of the for loop
    su_iter,          \* SuiteSpec: the iterator of the for loop
    su_tested,        \* SuiteSpec: history, the autoDrop tests run so far
    su_results,       \* SuiteSpec: len(results)
    rv_pc,            \* ValidationSpec: "start", "monitor", then "done"
    rv_elapsed,       \* ValidationSpec: seconds since test_start
    last_movement_time,
                      \* ValidationSpec: seconds since test_start
    rv_child_exit,    \* ValidationSpec: when the child exits if left alone
    rv_killed,        \* ValidationSpec: the child was terminated
    rv_still,         \* ValidationSpec: history, a read showed no movement
    rv_result,        \* ValidationSpec: what run_single_test returned
    sc_pc,            \* ScenarioSpec: "main", "for", then "done"
    sc_results,       \* ScenarioSpec: the success values of results
    sc_ends,          \* ScenarioSpec: history, how each scenario ended
    sc_main           \* ScenarioSpec: what main returned

vars == <<pc, caller, attempt, test_num, tests_completed, tests_passed,
          tests_failed, progress, raw_data, files, token, samples, elapsed,
          endReason, misses, authRejected, interrupted, sampleInt, abortAt,
          lastHealth, controllerOk, phases, simReset, helperExit, rodeReset,
          unstopped, mx_pc, mx_matrix, mx_pos, mx_num, mx_ran, sim_config,
          cfg_args, cfg_once, cfg_twice, cfg_result, log_pc, test_log,
          progress_file, cs_pc, cs_reads, cs_sample, ra_pc, ra_attempt,
          ra_misses, ra_last, ra_put, ra_result, lg_pc, lg_elapsed,
          consecutive_none_count, lg_run, lg_missed, lg_end, last_motor_action,
          speed_monitor, motor_log, su_pc, wind_speeds, su_wind, su_iter,
          su_tested, su_results, rv_pc, rv_elapsed, last_movement_time,
          rv_child_exit, rv_killed, rv_still, rv_result,
          sc_pc, sc_results, sc_ends, sc_main>>

counters == <<tests_completed, tests_passed, tests_failed>>

history == <<endReason, misses, authRejected, interrupted, sampleInt, abortAt>>

\* The variables of MatrixSpec, of ConfigSpec, and those of Spec.
mxvars == <<mx_pc, mx_matrix, mx_pos, mx_num, mx_ran>>

cfgvars == <<sim_config, cfg_args, cfg_once, cfg_twice, cfg_result>>

logvars == <<log_pc, test_log, progress_file>>

smpvars == <<cs_pc, cs_reads, cs_sample>>

rstvars == <<ra_pc, ra_attempt, ra_misses, ra_last, ra_put, ra_result>>

colvars == <<lg_pc, lg_elapsed, consecutive_none_count, lg_run, lg_missed,
             lg_end, last_motor_action, speed_monitor, motor_log>>

suitevars == <<su_pc, wind_speeds, su_wind, su_iter, su_tested, su_results>>

valvars == <<rv_pc, rv_elapsed, last_movement_time, rv_child_exit, rv_killed,
             rv_still, rv_result>>

scnvars == <<sc_pc, sc_results, sc_ends, sc_main>>

sidevars ==
    <<mxvars, cfgvars, logvars, smpvars, rstvars, colvars, suitevars,
      valvars, scnvars>>

runnervars ==
    <<pc, caller, attempt, test_num, tests_completed, tests_passed,
      tests_failed, progress, raw_data, files, token, samples, elapsed,
      endReason,
      misses, authRejected, interrupted, sampleInt, abortAt, lastHealth,
      controllerOk, phases, simReset, helperExit, rodeReset, unstopped>>

\* The history of the TestCase in progress.
testhist ==
    <<lastHealth, controllerOk, phases, simReset, helperExit, rodeReset>>

runvars == <<token, samples, elapsed>>

NoProgress == EmptyDict

\* sampleInt is <<>> or <<the samples at the interrupt>>.
NoSnapshot == <<>>

\* lastHealth before ensure_chain_controller has read anything.
NoRead == [token |-> FALSE, status |-> "none", source |-> <<>>]

\* MatrixSpec is not running.
MatrixIdle ==
    /\ mx_pc = "idle"
    /\ mx_matrix = <<>>
    /\ mx_pos = 0
    /\ mx_num = 0
    /\ mx_ran = <<>>

\* The simulator's configuration is not being exercised.
ConfigIdle ==
    /\ sim_config = EmptyDict
    /\ cfg_args = <<>>
    /\ cfg_once = EmptyDict
    /\ cfg_twice = FALSE
    /\ cfg_result = "none"

\* The session's files are not being followed line by line.
LogIdle ==
    /\ log_pc = "idle"
    /\ test_log = <<>>
    /\ progress_file = <<>>

\* The state after construction of the session's own variables.
RunnerInit ==
    /\ pc = "main_setup"
    /\ caller = "none"
    /\ attempt = 0
    /\ test_num = 1
    /\ tests_completed = 0
    /\ tests_passed = 0
    /\ tests_failed = 0
    /\ progress = NoProgress
    /\ raw_data = <<>>
    /\ files = EmptyDict
    /\ token = 0
    /\ samples = <<>>
    /\ elapsed = 0
    /\ endReason = "none"
    /\ misses = 0
    /\ authRejected = FALSE
    /\ interrupted = FALSE
    /\ sampleInt = NoSnapshot
    /\ abortAt = "none"
    /\ lastHealth = NoRead
    /\ controllerOk = FALSE
    /\ phases = <<>>
    /\ simReset = "none"
    /\ helperExit = "none"
    /\ rodeReset = FALSE
    /\ unstopped = FALSE

\* No read made yet.
NoReads == [pos |-> <<>>, speed |-> <<>>, heading |-> <<>>, sim_state |-> <<>>]

SampleIdle ==
    /\ cs_pc = "idle"
    /\ cs_reads = NoReads
    /\ cs_sample = EmptyDict

ResetIdle ==
    /\ ra_pc = "idle"
    /\ ra_attempt = 0
    /\ ra_misses = 0
    /\ ra_last = <<>>
    /\ ra_put = FALSE
    /\ ra_result = "none"

CollectIdle ==
    /\ lg_pc = "idle"
    /\ lg_elapsed = 0
    /\ consecutive_none_count = 0
    /\ lg_run = 0
    /\ lg_missed = 0
    /\ lg_end = "none"
    /\ last_motor_action = 0
    /\ motor_log = <<>>
    /\ speed_monitor = <<>>

SuiteIdle ==
    /\ su_pc = "idle"
    /\ wind_speeds = <<15, 10, 5>>
    /\ su_wind = 0
    /\ su_iter = [list |-> <<>>, pos |-> 1]
    /\ su_tested = <<>>
    /\ su_results = 0

ValidationIdle ==
    /\ rv_pc = "idle"
    /\ rv_elapsed = 0
    /\ last_movement_time = 0
    /\ rv_child_exit = 0
    /\ rv_killed = FALSE
    /\ rv_still = FALSE
    /\ rv_result = "none"

ScenarioIdle ==
    /\ sc_pc = "idle"
    /\ sc_results = <<>>
    /\ sc_ends = <<>>
    /\ sc_main = "none"

Init ==
    /\ RunnerInit
    /\ MatrixIdle
    /\ ConfigIdle
    /\ LogIdle
    /\ SampleIdle
    /\ ResetIdle
    /\ CollectIdle
    /\ SuiteIdle
    /\ ValidationIdle
    /\ ScenarioIdle

(* ---- the helpers of run_test, as functions of what the server answers ---- *)

\* Python's None for an optional value, and a value that is there.
None == <<>>

Some(v) == <<v>>

\* The values a telemetry read can return (None: the read failed).
PositionReads == {None, Some("position")}

SpeedReads == {None, Some(0), Some(2)}

\* What the headingTrue request is answered with: nothing, or the heading
\* in radians, counted here in quarter turns (pi/2).
HeadingAnswers == {None, Some(0), Some(1)}

\* Lines 270-280, get_heading: rad * 180 / math.pi, None when the request
\* failed.
get_heading(answer) == IF answer = None THEN None ELSE Some(answer[1] * 90)

HeadingReads == {get_heading(answer) : answer \in HeadingAnswers}

SimReads == {None} \cup {Some(r) : r \in SimReadings}

\* Truth value of an optional number, as "if heading" takes it.
Truthy(opt) == opt # None /\ opt[1] # 0

\* collect_sample with the subtraction of line 311 turned round.
collect_sample_SignFlipped(pos, speed, heading, sim_state, now) ==
    IF ~(pos # None /\ speed # None /\ Truthy(heading)) THEN EmptyDict
    ELSE IF sim_state # None
         THEN [elapsed_sec |-> 0 - now, simulation_state |-> sim_state[1]]
         ELSE [elapsed_sec |-> 0 - now]

\* collect_sample: None unless "pos and speed is not None and heading"; of a
\* Sample the model keeps elapsed_sec and simulation_state.  The falsy result
\* (None) is the empty dict here.
collect_sample(pos, speed, heading, sim_state, now) ==
    IF ~(pos # None /\ speed # None /\ Truthy(heading)) THEN EmptyDict
    ELSE IF sim_state # None
         THEN [elapsed_sec |-> now, simulation_state |-> sim_state[1]]
         ELSE [elapsed_sec |-> now]

\* Completion with "scope > 5.0" for line 425.
Completion_ScopeStrict(test_type, smpls) ==
    /\ Len(smpls) > 0
    /\ LET sim_state == Get(Last(smpls), "simulation_state", EmptyDict)
       IN  IF test_type = "autoDrop"
           THEN Get(sim_state, "scopeRatio", 0) > ScopeTarget
           ELSE IF test_type = "autoRetrieve"
           THEN Get(sim_state, "rodeDeployed", 0) <= RodeEpsilon
           ELSE FALSE

\* Completion with "rode < 0.1" for line 432.
Completion_RodeStrict(test_type, smpls) ==
    /\ Len(smpls) > 0
    /\ LET sim_state == Get(Last(smpls), "simulation_state", EmptyDict)
       IN  IF test_type = "autoDrop"
           THEN Get(sim_state, "scopeRatio", 0) >= ScopeTarget
           ELSE IF test_type = "autoRetrieve"
           THEN Get(sim_state, "rodeDeployed", 0) < RodeEpsilon
           ELSE FALSE

\* Lines 418-434: the termination check on the latest Sample.
Completion(test_type, smpls) ==
    /\ Len(smpls) > 0
    /\ LET sim_state == Get(Last(smpls), "simulation_state", EmptyDict)
       IN  IF test_type = "autoDrop"
           THEN Get(sim_state, "scopeRatio", 0) >= ScopeTarget
           ELSE IF test_type = "autoRetrieve"
           THEN Get(sim_state, "rodeDeployed", 0) <= RodeEpsilon
           ELSE FALSE

\* test_file named without the operation type.
test_file_NoType(tc) ==
    [wind |-> tc.wind, depth |-> tc.depth]

\* Line 443: the name of the record file under the session's raw_data/; of
\* the name the model keeps what the TestCase gives (the timestamp in it
\* only tells apart what these already tell apart).
test_file(tc) ==
    [test_type |-> tc.test_type, wind |-> tc.wind, depth |-> tc.depth]

\* open(name, 'w') and json.dump (lines 476-477): the file is created or
\* replaced.
Write(dir, name, content) ==
    [n \in DOMAIN dir \cup {name} |-> IF n = name THEN content ELSE dir[n]]

\* Lines 445-474: the record of a TestRun.
test_data(num, case, smpls) ==
    LET metadata == [test_number |-> num,
                     test_type |-> case.test_type,
                     wind_speed_kn |-> case.wind,
                     depth_m |-> case.depth,
                     sample_count |-> Len(smpls),
                     completed |-> TRUE,
                     timeout |-> (Len(smpls) = 0)]
    IN  IF Len(smpls) > 0
        THEN LET sim_state == Get(Last(smpls), "simulation_state", EmptyDict)
             IN  [test_metadata |-> metadata,
                  samples |-> smpls,
                  summary |-> [final_scope |-> Get(sim_state, "scopeRatio", 0),
                               final_rode |-> Get(sim_state, "rodeDeployed", 0)]]
        ELSE [test_metadata |-> metadata, samples |-> smpls]

\* Line 482: passed = len(samples) > 0 and test_data.get('summary')
Passed(smpls, data) ==
    Len(smpls) > 0 /\ Get(data, "summary", EmptyDict) # EmptyDict

\* update_progress: the content written to PROGRESS.txt.
ProgressRecord(num, case, status) ==
    [test |-> num, current |-> case, status |-> status,
     completed |-> tests_completed, passed |-> tests_passed,
     failed |-> tests_failed]

\* The acknowledgement bodies the command PUT can be answered with: a JSON
\* object without or with an "error" member, or JSON that is no container.
AckBodies ==
    { [json |-> "object", keys |-> {"state", "statusCode"}],
      [json |-> "object", keys |-> {"error"}],
      [json |-> "null", keys |-> {}] }

\* send_command: the parsed body, or {'error': ...} when the call raised.
send_command(response, body) ==
    IF response = "ok" THEN body ELSE [json |-> "object", keys |-> {"error"}]

\* The command PUT went through and was not answered with an error.
Accepted(response, body) == response = "ok" /\ "error" \notin body.keys

case == test_matrix[test_num]

(* ---- where exceptions go ---- *)

\* Helpers whose body is wrapped in a bare "except:", which also catches
\* KeyboardInterrupt: stop_chain, reset_anchor, get_position, collect_sample.
BareExceptPcs == {"rt_stop", "rt_reset", "rt_startpos", "sl_sample"}

\* The statements of run_test's try block that are not inside collect_sample.
SamplingTryPcs == {"sl_cond", "sl_sleep", "sl_check"}

SamplingPcs == SamplingTryPcs \cup {"sl_sample"}

\* Statements no try block of __main__ covers.
UncoveredPcs == {"main_setup", "main_int", "main_fatal"}

ExitPcs == {"exit_ok", "exit_1", "exit_int", "exit_fatal", "crash"}

\* The statements inside restart_chain_controller's try block (lines 135-154).
RestartTryPcs == {"rcc_post", "rcc_poll", "rcc_ok", "rcc_fail"}

\* The positions inside run_test (restart_chain_controller's are, when
\* ensure_chain_controller called it).
RunTestPcs ==
    {"rt_begin", "rt_token", "ecc_check", "ecc_log", "rt_phase1", "rt_stop",
     "rt_reset", "rt_config", "rt_simreset", "rt_settle", "rt_startpos",
     "rt_latlon", "rt_command", "rt_ackcheck", "rt_cmdlog", "sl_cond",
     "sl_sample", "sl_sleep", "sl_check", "sl_int", "sl_exc", "p4_log",
     "p4_write", "p4_saved", "pf_decide", "pf_log", "pf_inc_completed",
     "pf_progress", "ef_log", "ef_inc_failed", "ef_inc_completed"}

\* The statements that write a file: log_test, update_progress, json.dump,
\* setup_session.
WritePcs ==
    {"main_setup", "ra_verify", "rt_begin", "rt_token", "ecc_check", "ecc_log",
     "rcc_post", "rcc_ok", "rcc_fail", "rcc_exc", "rt_phase1", "rt_config",
     "rt_simreset", "rt_settle", "rt_cmdlog", "ef_log", "sl_check", "sl_int",
     "sl_exc", "p4_log", "p4_write", "p4_saved", "pf_log", "pf_progress",
     "ra_summary", "main_int", "main_fatal"}

\* Handler without run_test's "except KeyboardInterrupt" clause (lines 435-436).
Handler_NoInterruptClause(at, kind) ==
    IF at \in {"rt_stop", "rt_reset", "rt_startpos"} THEN "ef_log"
    ELSE IF at = "sl_sample" THEN "sl_sleep"
    ELSE IF at \in SamplingTryPcs /\ kind # "KeyboardInterrupt" THEN "sl_exc"
    ELSE IF at \in RestartTryPcs /\ kind # "KeyboardInterrupt" THEN "rcc_exc"
    ELSE IF at = "ra_verify" THEN "exit_1"
    ELSE IF at \in UncoveredPcs THEN "crash"
    ELSE IF kind = "KeyboardInterrupt" THEN "main_int"
    ELSE "main_fatal"

\* Where control continues when `kind` is raised by the statement at `at`:
\* the innermost enclosing except clause that catches it.
Handler(at, kind) ==
    IF at \in {"rt_stop", "rt_reset", "rt_startpos"} THEN "ef_log"
    ELSE IF at = "sl_sample" THEN "sl_sleep"
    ELSE IF at \in SamplingTryPcs
         THEN (IF kind = "KeyboardInterrupt" THEN "sl_int" ELSE "sl_exc")
    ELSE IF at \in RestartTryPcs /\ kind # "KeyboardInterrupt" THEN "rcc_exc"
    ELSE IF at = "ra_verify" THEN "exit_1"
    ELSE IF at \in UncoveredPcs THEN "crash"
    ELSE IF kind = "KeyboardInterrupt" THEN "main_int"
    ELSE "main_fatal"

Propagates(at, kind) == Handler(at, kind) \in {"main_int", "main_fatal", "crash"}

\* run_test's frame is gone: its locals, and the history kept of them.
Unwound ==
    /\ token' = 0
    /\ samples' = <<>>
    /\ elapsed' = 0
    /\ endReason' = "none"
    /\ misses' = 0
    /\ authRejected' = FALSE
    /\ lastHealth' = NoRead
    /\ controllerOk' = FALSE
    /\ phases' = <<>>
    /\ simReset' = "none"
    /\ helperExit' = "none"
    /\ rodeReset' = FALSE

\* A raise at `at`: the jump to the handler, the unwinding of run_test's
\* frame when the exception leaves it, and the history of the raise.
Raise(at, kind) ==
    /\ pc' = Handler(at, kind)
    /\ abortAt' = IF Propagates(at, kind) \/ Handler(at, kind) = "exit_1"
                  THEN at ELSE abortAt
    /\ IF Propagates(at, kind) THEN Unwound
       ELSE /\ endReason' = IF Handler(at, kind) = "sl_int" THEN "interrupt"
                            ELSE IF Handler(at, kind) = "sl_exc"
                            THEN (IF at = "sl_check" THEN "completed"
                                  ELSE "error")
                            ELSE endReason
            /\ misses' = IF at = "sl_sample" THEN misses + 1 ELSE misses
            /\ phases' = IF at = "rt_stop" THEN Append(phases, "STOP")
                         ELSE IF at = "rt_reset"
                         THEN Append(phases, "ANCHOR_RESET")
                         ELSE phases
            /\ UNCHANGED <<runvars, authRejected, lastHealth, controllerOk,
                           simReset, helperExit,
                           rodeReset>>

\* The operator presses Ctrl-C while the statement at pc runs.
KeyboardInterrupt ==
    /\ pc \notin ExitPcs
    /\ Raise(pc, "KeyboardInterrupt")
    /\ interrupted' = TRUE
    /\ sampleInt' = IF Propagates(pc, "KeyboardInterrupt") THEN NoSnapshot
                    ELSE IF pc \in SamplingPcs THEN <<samples>> ELSE sampleInt
    /\ UNCHANGED <<caller, attempt, test_num, counters, progress, raw_data,
                   files>>
    /\ UNCHANGED <<unstopped, sidevars>>

\* A file write of the statement at pc fails (disk full, file removed).  The
\* termination check writes only once completion has fired (lines 426, 433).
OSError ==
    /\ pc \in WritePcs
    /\ pc = "sl_check" => Completion(case.test_type, samples)
    /\ Raise(pc, "Exception")
    /\ sampleInt' = IF Propagates(pc, "Exception") THEN NoSnapshot
                    ELSE sampleInt
    /\ UNCHANGED <<caller, attempt, test_num, counters, progress, raw_data,
                   files,
                   interrupted>>
    /\ UNCHANGED <<unstopped, sidevars>>

(* ---- __main__ and run_all_tests ---- *)

Step(from, to) == pc = from /\ pc' = to

setup_session ==
    /\ Step("main_setup", "ra_verify")
    /\ UNCHANGED <<caller, attempt, test_num, counters, progress, raw_data,
                   files,
                   runvars, history, testhist>>
    /\ UNCHANGED <<unstopped, sidevars>>

verify_server ==
    /\ pc = "ra_verify"
    /\ \E ok \in BOOLEAN :
          IF ok THEN pc' = "ra_check" /\ abortAt' = abortAt
          ELSE pc' = "exit_1" /\ abortAt' = "ra_verify"
    /\ UNCHANGED <<caller, attempt, test_num, counters, progress, raw_data,
                   files,
                   runvars, endReason, misses, authRejected, interrupted,
                   sampleInt, testhist>>
    /\ UNCHANGED <<unstopped, sidevars>>

\* Lines 505-517: the health check before the first TestCase.
initial_check ==
    /\ pc = "ra_check"
    /\ \E read \in HealthReads :
          IF check_chain_controller(read)
          THEN pc' = "ra_loop" /\ caller' = caller
          ELSE pc' = "rcc_post" /\ caller' = "run_all_tests"
    /\ UNCHANGED <<attempt, test_num, counters, progress, raw_data, files,
                   runvars,
                   history, testhist>>
    /\ UNCHANGED <<unstopped, sidevars>>

\* RestartReturn with run_test going on whatever ensure_chain_controller
\* returned.
RestartReturn_ResultIgnored(result) ==
    /\ pc' = IF caller = "run_test" THEN "rt_phase1"
             ELSE (IF result THEN "ra_loop" ELSE "exit_1")
    /\ controllerOk' = (caller = "run_test" /\ result)
    /\ abortAt' = IF caller # "run_test" /\ ~result THEN "ra_restart"
                  ELSE abortAt
    /\ caller' = "none"
    /\ attempt' = 0
    /\ UNCHANGED <<unstopped, sidevars>>

\* restart_chain_controller returns `result` to its caller: to run_test
\* through ensure_chain_controller (lines 166, 348-356), or to run_all_tests,
\* where False is the sys.exit(1) of line 517.
RestartReturn(result) ==
    /\ pc' = IF caller = "run_test"
             THEN (IF result THEN "rt_phase1" ELSE "ef_log")
             ELSE (IF result THEN "ra_loop" ELSE "exit_1")
    /\ controllerOk' = (caller = "run_test" /\ result)
    /\ abortAt' = IF caller # "run_test" /\ ~result THEN "ra_restart"
                  ELSE abortAt
    /\ caller' = "none"
    /\ attempt' = 0

\* Lines 135-143: the restart POST and the 15 s wait; a POST that raises
\* (requests.post, raise_for_status) goes to the except clause of line 155.
restart_post ==
    /\ pc = "rcc_post"
    /\ \E accepted \in BOOLEAN :
          pc' = IF accepted THEN "rcc_poll" ELSE "rcc_exc"
    /\ attempt' = 0
    /\ UNCHANGED <<caller, test_num, counters, progress, raw_data, files,
                   runvars,
                   history, testhist>>
    /\ UNCHANGED <<unstopped, sidevars>>

\* restart_poll with "range(5)" taken as one pass too many.
restart_poll_OneMorePass ==
    /\ pc = "rcc_poll"
    /\ \E read \in HealthReads :
          IF check_chain_controller(read)
          THEN pc' = "rcc_ok" /\ attempt' = attempt
          ELSE /\ attempt' = attempt + 1
               /\ pc' = IF attempt + 1 <= ReconnectAttempts
                        THEN "rcc_poll" ELSE "rcc_fail"
    /\ UNCHANGED <<caller, test_num, counters, progress, raw_data, files,
                   runvars,
                   history, testhist>>
    /\ UNCHANGED <<unstopped, sidevars>>

\* Lines 146-151: one pass of "for attempt in range(5)": a poll, and either
\* the way out at "if ok" or the 3 s sleep.  `attempt` counts the polls that
\* have failed, which is the loop variable at the next poll.
restart_poll ==
    /\ pc = "rcc_poll"
    /\ \E read \in HealthReads :
          IF check_chain_controller(read)
          THEN pc' = "rcc_ok" /\ attempt' = attempt
          ELSE /\ attempt' = attempt + 1
               /\ pc' = IF attempt + 1 < ReconnectAttempts
                        THEN "rcc_poll" ELSE "rcc_fail"
    /\ UNCHANGED <<caller, test_num, counters, progress, raw_data, files,
                   runvars,
                   history, testhist>>
    /\ UNCHANGED <<unstopped, sidevars>>

\* Lines 149-150: log_test('Chain controller reconnected'); return True.
restart_reconnected ==
    /\ pc = "rcc_ok"
    /\ RestartReturn(TRUE)
    /\ UNCHANGED <<test_num, counters, progress, raw_data, files, runvars,
                   endReason,
                   misses, authRejected, interrupted, sampleInt, lastHealth,
                   phases, simReset, helperExit,
                   rodeReset>>
    /\ UNCHANGED <<unstopped, sidevars>>

\* Lines 155-157: except Exception: log_test(...); return False.
restart_failed ==
    /\ pc = "rcc_exc"
    /\ RestartReturn(FALSE)
    /\ UNCHANGED <<test_num, counters, progress, raw_data, files, runvars,
                   endReason,
                   misses, authRejected, interrupted, sampleInt, lastHealth,
                   phases, simReset, helperExit,
                   rodeReset>>
    /\ UNCHANGED <<unstopped, sidevars>>

\* Lines 153-154.
restart_give_up ==
    /\ pc = "rcc_fail"
    /\ RestartReturn(FALSE)
    /\ UNCHANGED <<test_num, counters, progress, raw_data, files, runvars,
                   endReason,
                   misses, authRejected, interrupted, sampleInt, lastHealth,
                   phases, simReset, helperExit,
                   rodeReset>>
    /\ UNCHANGED <<unstopped, sidevars>>

\* Line 529: the head of "for wind, depth, test_type in test_matrix".
loop_head ==
    /\ pc = "ra_loop"
    /\ pc' = IF test_num <= Len(test_matrix) THEN "rt_begin" ELSE "ra_summary"
    /\ UNCHANGED <<caller, attempt, test_num, counters, progress, raw_data,
                   files,
                   runvars, history, testhist>>
    /\ UNCHANGED <<unstopped, sidevars>>

\* Lines 531-532, after run_test has returned.
loop_next ==
    /\ pc = "ra_next"
    /\ pc' = "ra_loop"
    /\ test_num' = test_num + 1
    /\ UNCHANGED <<caller, attempt, counters, progress, raw_data, files,
                   runvars,
                   history, testhist>>
    /\ UNCHANGED <<unstopped, sidevars>>

\* Lines 535-545.
summary ==
    /\ Step("ra_summary", "exit_ok")
    /\ UNCHANGED <<caller, attempt, test_num, counters, progress, raw_data,
                   files,
                   runvars, history, testhist>>
    /\ UNCHANGED <<unstopped, sidevars>>

\* Lines 557-559.
main_interrupted ==
    /\ Step("main_int", "exit_int")
    /\ UNCHANGED <<caller, attempt, test_num, counters, progress, raw_data,
                   files,
                   runvars, history, testhist>>
    /\ UNCHANGED <<unstopped, sidevars>>

\* Lines 560-563.
main_fatal_error ==
    /\ Step("main_fatal", "exit_fatal")
    /\ UNCHANGED <<caller, attempt, test_num, counters, progress, raw_data,
                   files,
                   runvars, history, testhist>>
    /\ UNCHANGED <<unstopped, sidevars>>

(* ---- run_test ---- *)

\* Lines 335-337.
run_test_begin ==
    /\ pc = "rt_begin"
    /\ pc' = "rt_token"
    /\ progress' = ProgressRecord(test_num, case, "RUNNING")
    /\ UNCHANGED <<caller, attempt, test_num, counters, raw_data, files,
                   runvars,
                   history, testhist>>
    /\ UNCHANGED <<unstopped, sidevars>>

\* Lines 339-340.
acquire_token ==
    /\ pc = "rt_token"
    /\ \E got \in BOOLEAN :
          IF got THEN pc' = "ecc_check" /\ token' = token + 1
          ELSE pc' = "ef_log" /\ token' = token
    /\ UNCHANGED <<caller, attempt, test_num, counters, progress, raw_data,
                   files,
                   samples, elapsed, history, testhist>>
    /\ UNCHANGED <<unstopped, sidevars>>

\* Lines 347-348 and 161-163: ensure_chain_controller's first check.
ensure_check ==
    /\ pc = "ecc_check"
    /\ \E read \in HealthReads :
          /\ pc' = IF check_chain_controller(read) THEN "rt_phase1"
                   ELSE "ecc_log"
          /\ controllerOk' = check_chain_controller(read)
          /\ lastHealth' = read
    /\ phases' = Append(phases, "HEALTH_CHECK")
    /\ UNCHANGED <<caller, attempt, test_num, counters, progress, raw_data,
                   files,
                   runvars, history, simReset, helperExit,
                   rodeReset>>
    /\ UNCHANGED <<unstopped, sidevars>>

\* Lines 165-166.
ensure_restart ==
    /\ pc = "ecc_log"
    /\ pc' = "rcc_post"
    /\ caller' = "run_test"
    /\ lastHealth' = NoRead
    /\ UNCHANGED <<attempt, test_num, counters, progress, raw_data, files,
                   runvars,
                   history, controllerOk, phases, simReset, helperExit,
                   rodeReset>>
    /\ UNCHANGED <<unstopped, sidevars>>

\* Lines 353-356.
phase1_begin ==
    /\ Step("rt_phase1", "rt_stop")
    /\ lastHealth' = NoRead
    /\ UNCHANGED <<caller, attempt, test_num, counters, progress, raw_data,
                   files, runvars, history, controllerOk, phases, simReset,
                   helperExit, rodeReset>>
    /\ UNCHANGED <<unstopped, sidevars>>

\* How a helper script run by subprocess.run can end: it exits with status 0,
\* it exits with a non-zero status, or it outlives the timeout.
ScriptEnds == {"exit_0", "exit_1", "timeout"}

\* Lines 168-186, reset_anchor() and stop_chain(): subprocess.run is called
\* without check=True and its result is dropped, so the exit status is never
\* read; only an exception (TimeoutExpired) reaches the bare except.
helper_returns(end) == end # "timeout"

\* What the test case remembers of its helper scripts.
Exited(before, end) == IF end = "exit_1" THEN "failed" ELSE before

\* stop_chain with "or not reset_anchor()" of line 357 left out.
stop_chain_SkipsAnchorReset ==
    /\ pc = "rt_stop"
    /\ \E end \in ScriptEnds :
          /\ pc' = IF helper_returns(end) THEN "rt_config" ELSE "ef_log"
          /\ helperExit' = Exited(helperExit, end)
          /\ unstopped' = IF end = "exit_0" THEN FALSE ELSE unstopped
    /\ phases' = Append(phases, "STOP")
    /\ UNCHANGED <<caller, attempt, test_num, counters, progress, raw_data,
                   files, runvars, history, lastHealth, controllerOk, simReset,
                   rodeReset>>
    /\ UNCHANGED sidevars

\* Line 357, stop_chain(): False only when subprocess.run raised.
stop_chain ==
    /\ pc = "rt_stop"
    /\ \E end \in ScriptEnds :
          /\ pc' = IF helper_returns(end) THEN "rt_reset" ELSE "ef_log"
          /\ helperExit' = Exited(helperExit, end)
          /\ unstopped' = IF end = "exit_0" THEN FALSE ELSE unstopped
    /\ phases' = Append(phases, "STOP")
    /\ UNCHANGED <<caller, attempt, test_num, counters, progress, raw_data,
                   files, runvars, history, lastHealth, controllerOk, simReset,
                   rodeReset>>
    /\ UNCHANGED sidevars

\* Line 357, reset_anchor().
reset_anchor ==
    /\ pc = "rt_reset"
    /\ \E end \in ScriptEnds :
          /\ pc' = IF helper_returns(end) THEN "rt_config" ELSE "ef_log"
          /\ helperExit' = Exited(helperExit, end)
          /\ rodeReset' = (end = "exit_0")
    /\ phases' = Append(phases, "ANCHOR_RESET")
    /\ UNCHANGED <<caller, attempt, test_num, counters, progress, raw_data,
                   files,
                   runvars, history, lastHealth, controllerOk, simReset>>
    /\ UNCHANGED <<unstopped, sidevars>>

\* Lines 362-370.
configure_environment ==
    /\ pc = "rt_config"
    /\ \E ok \in BOOLEAN : pc' = IF ok THEN "rt_simreset" ELSE "ef_log"
    /\ phases' = Append(phases, "APPLY")
    /\ UNCHANGED <<caller, attempt, test_num, counters, progress, raw_data,
                   files, runvars, history, lastHealth, controllerOk, simReset,
                   helperExit, rodeReset>>
    /\ UNCHANGED <<unstopped, sidevars>>

\* Lines 372-373: a failed reset is logged and run_test goes on.
reset_simulation ==
    /\ pc = "rt_simreset"
    /\ \E ok \in BOOLEAN :
          /\ pc' = "rt_settle"
          /\ simReset' = IF ok THEN "ok" ELSE "failed"
    /\ phases' = Append(phases, "SIM_RESET")
    /\ UNCHANGED <<caller, attempt, test_num, counters, progress, raw_data,
                   files,
                   runvars, history, lastHealth, controllerOk, helperExit,
                   rodeReset>>
    /\ UNCHANGED <<unstopped, sidevars>>

\* Lines 374-380.
settle ==
    /\ Step("rt_settle", "rt_startpos")
    /\ UNCHANGED <<caller, attempt, test_num, counters, progress, raw_data,
                   files,
                   runvars, history, testhist>>
    /\ UNCHANGED <<unstopped, sidevars>>

\* Lines 381-389: the initial position; start_pos['latitude'] raises KeyError
\* when the position read has no latitude.
initial_position ==
    /\ pc = "rt_startpos"
    /\ \E response \in Responses, wellformed \in BOOLEAN :
          IF response # "ok"
          THEN /\ pc' = "ef_log"
               /\ authRejected' = (response = "unauthorized")
               /\ UNCHANGED <<runvars, endReason, misses, abortAt, testhist>>
          ELSE IF wellformed
          THEN /\ pc' = "rt_command"
               /\ UNCHANGED <<runvars, endReason, misses, authRejected,
                              abortAt, testhist>>
          ELSE Raise("rt_latlon", "Exception")
    /\ UNCHANGED <<caller, attempt, test_num, counters, progress, raw_data,
                   files,
                   interrupted, sampleInt>>
    /\ UNCHANGED <<unstopped, sidevars>>

\* Lines 392-398: "'error' in result" raises TypeError when result is no
\* container.
command ==
    /\ pc = "rt_command"
    /\ \E response \in Responses, body \in AckBodies :
          LET result == send_command(response, body)
          IN  /\ unstopped' = (unstopped \/ Accepted(response, body))
              /\ IF result.json # "object"
                 THEN Raise("rt_ackcheck", "Exception")
                 ELSE /\ pc' = IF "error" \in result.keys
                               THEN "ef_log" ELSE "rt_cmdlog"
                      /\ authRejected' = (response = "unauthorized")
                      /\ phases' = Append(phases, "COMMAND")
                      /\ UNCHANGED <<runvars, endReason, misses, abortAt,
                                     lastHealth, controllerOk, simReset,
                                     helperExit, rodeReset>>
    /\ UNCHANGED <<caller, attempt, test_num, counters, progress, raw_data,
                   files,
                   interrupted, sampleInt>>
    /\ UNCHANGED sidevars

\* Lines 399-405.
command_sent ==
    /\ pc = "rt_cmdlog"
    /\ pc' = "sl_cond"
    /\ samples' = <<>>
    /\ elapsed' = 0
    /\ authRejected' = FALSE
    /\ phases' = Append(phases, "SAMPLE")
    /\ simReset' = "none"
    /\ helperExit' = "none"
    /\ rodeReset' = FALSE
    /\ UNCHANGED <<caller, attempt, test_num, counters, progress, raw_data,
                   files,
                   token, endReason, misses, interrupted, sampleInt, abortAt,
                   lastHealth, controllerOk>>
    /\ UNCHANGED <<unstopped, sidevars>>

\* Line 408: while time.time() - test_start < max_duration.
loop_condition ==
    /\ pc = "sl_cond"
    /\ IF elapsed < TimeoutTicks
       THEN pc' = "sl_sample" /\ endReason' = endReason
       ELSE pc' = "p4_log" /\ endReason' = "timeout"
    /\ UNCHANGED <<caller, attempt, test_num, counters, progress, raw_data,
                   files,
                   runvars, misses, authRejected, interrupted, sampleInt,
                   abortAt, testhist>>
    /\ UNCHANGED <<unstopped, sidevars>>

\* sample_tick with a failed collect_sample tried once more at once.
sample_tick_RetriesFailedRead ==
    /\ pc = "sl_sample"
    /\ \E accepted \in BOOLEAN, pos \in PositionReads, speed \in SpeedReads,
          heading \in HeadingReads, sim_state \in SimReads :
          LET sample == IF accepted
                        THEN collect_sample(pos, speed, heading, sim_state,
                                            elapsed)
                        ELSE collect_sample(None, None, None, None, elapsed)
          IN  /\ samples' = IF sample # EmptyDict
                            THEN Append(samples, sample) ELSE samples
              /\ misses' = IF sample # EmptyDict THEN 0 ELSE misses + 1
              /\ authRejected' = ~accepted
              /\ pc' = IF sample = EmptyDict /\ misses = 0 THEN "sl_sample"
                       ELSE "sl_sleep"
    /\ UNCHANGED <<caller, attempt, test_num, counters, progress, raw_data,
                   files,
                   token, elapsed, endReason, interrupted, sampleInt, abortAt,
                   testhist>>
    /\ UNCHANGED <<unstopped, sidevars>>

\* Lines 409-414: one tick's collect_sample; a 401 fails all four reads.
sample_tick ==
    /\ pc = "sl_sample"
    /\ pc' = "sl_sleep"
    /\ \E accepted \in BOOLEAN, pos \in PositionReads, speed \in SpeedReads,
          heading \in HeadingReads, sim_state \in SimReads :
          LET sample == IF accepted
                        THEN collect_sample(pos, speed, heading, sim_state,
                                            elapsed)
                        ELSE collect_sample(None, None, None, None, elapsed)
          IN  /\ samples' = IF sample # EmptyDict
                            THEN Append(samples, sample) ELSE samples
              /\ misses' = IF sample # EmptyDict THEN 0 ELSE misses + 1
              /\ authRejected' = ~accepted
    /\ UNCHANGED <<caller, attempt, test_num, counters, progress, raw_data,
                   files,
                   token, elapsed, endReason, interrupted, sampleInt, abortAt,
                   testhist>>
    /\ UNCHANGED <<unstopped, sidevars>>

\* Line 416 (and the passes of the loop that are due no sample).
loop_sleep ==
    /\ pc = "sl_sleep"
    /\ pc' = "sl_check"
    /\ elapsed' = elapsed + 1
    /\ authRejected' = FALSE
    /\ UNCHANGED <<caller, attempt, test_num, counters, progress, raw_data,
                   files,
                   token, samples, endReason, misses, interrupted, sampleInt,
                   abortAt, testhist>>
    /\ UNCHANGED <<unstopped, sidevars>>

\* Lines 418-434.
termination_check ==
    /\ pc = "sl_check"
    /\ IF Completion(case.test_type, samples)
       THEN pc' = "p4_log" /\ endReason' = "completed"
       ELSE pc' = "sl_cond" /\ endReason' = endReason
    /\ UNCHANGED <<caller, attempt, test_num, counters, progress, raw_data,
                   files,
                   runvars, misses, authRejected, interrupted, sampleInt,
                   abortAt, testhist>>
    /\ UNCHANGED <<unstopped, sidevars>>

\* Lines 435-436.
interrupt_handler ==
    /\ Step("sl_int", "p4_log")
    /\ UNCHANGED <<caller, attempt, test_num, counters, progress, raw_data,
                   files,
                   runvars, history, testhist>>
    /\ UNCHANGED <<unstopped, sidevars>>

\* Lines 437-438.
error_handler ==
    /\ Step("sl_exc", "p4_log")
    /\ UNCHANGED <<caller, attempt, test_num, counters, progress, raw_data,
                   files,
                   runvars, history, testhist>>
    /\ UNCHANGED <<unstopped, sidevars>>

\* Line 441.
save_begin ==
    /\ Step("p4_log", "p4_write")
    /\ phases' = Append(phases, "FINALIZE")
    /\ UNCHANGED <<caller, attempt, test_num, counters, progress, raw_data,
                   files, runvars, history, lastHealth, controllerOk, simReset,
                   helperExit, rodeReset>>
    /\ UNCHANGED <<unstopped, sidevars>>

\* Lines 443-477.
save_record ==
    /\ pc = "p4_write"
    /\ pc' = "p4_saved"
    /\ raw_data' = Append(raw_data, test_data(test_num, case, samples))
    /\ files' = Write(files, test_file(case),
                      test_data(test_num, case, samples))
    /\ UNCHANGED <<caller, attempt, test_num, counters, progress, runvars,
                   history, testhist>>
    /\ UNCHANGED <<unstopped, sidevars>>

\* Line 479.
save_logged ==
    /\ Step("p4_saved", "pf_decide")
    /\ UNCHANGED <<caller, attempt, test_num, counters, progress, raw_data,
                   files,
                   runvars, history, testhist>>
    /\ UNCHANGED <<unstopped, sidevars>>

\* Lines 482-484 and 486-487.
decide ==
    /\ pc = "pf_decide"
    /\ pc' = "pf_log"
    /\ IF Passed(samples, test_data(test_num, case, samples))
       THEN tests_passed' = tests_passed + 1 /\ tests_failed' = tests_failed
       ELSE tests_failed' = tests_failed + 1 /\ tests_passed' = tests_passed
    /\ UNCHANGED <<caller, attempt, test_num, tests_completed, progress,
                   raw_data, files, runvars, history, testhist>>
    /\ UNCHANGED <<unstopped, sidevars>>

\* Lines 485 and 488.
decide_logged ==
    /\ Step("pf_log", "pf_inc_completed")
    /\ UNCHANGED <<caller, attempt, test_num, counters, progress, raw_data,
                   files,
                   runvars, history, testhist>>
    /\ UNCHANGED <<unstopped, sidevars>>

\* Line 490.
count_completed ==
    /\ pc = "pf_inc_completed"
    /\ pc' = "pf_progress"
    /\ tests_completed' = tests_completed + 1
    /\ UNCHANGED <<caller, attempt, test_num, tests_passed, tests_failed,
                   progress, raw_data, files, runvars, history, testhist>>
    /\ UNCHANGED <<unstopped, sidevars>>

\* Lines 491-493.
final_progress ==
    /\ pc = "pf_progress"
    /\ pc' = "ra_next"
    /\ progress' = ProgressRecord(test_num, case,
                       IF Passed(samples, test_data(test_num, case, samples))
                       THEN "DONE" ELSE "FAILED")
    /\ Unwound
    /\ sampleInt' = NoSnapshot
    /\ UNCHANGED <<caller, attempt, test_num, counters, raw_data, files,
                   interrupted, abortAt>>
    /\ UNCHANGED <<unstopped, sidevars>>

\* The log_test of an early failure: lines 341, 349, 358, 367, 383, 395.
early_failure ==
    /\ Step("ef_log", "ef_inc_failed")
    /\ authRejected' = FALSE
    /\ UNCHANGED <<caller, attempt, test_num, counters, progress, raw_data,
                   files,
                   runvars, endReason, misses, interrupted, sampleInt,
                   abortAt, testhist>>
    /\ UNCHANGED <<unstopped, sidevars>>

\* An early return that logs the failure without counting it.
early_count_failed_NotCounted ==
    /\ pc = "ef_inc_failed"
    /\ pc' = "ef_inc_completed"
    /\ UNCHANGED <<caller, attempt, test_num, counters,
                   progress, raw_data, files, runvars, history, testhist>>
    /\ UNCHANGED <<unstopped, sidevars>>

\* tests_failed += 1 of an early failure.
early_count_failed ==
    /\ pc = "ef_inc_failed"
    /\ pc' = "ef_inc_completed"
    /\ tests_failed' = tests_failed + 1
    /\ UNCHANGED <<caller, attempt, test_num, tests_completed, tests_passed,
                   progress, raw_data, files, runvars, history, testhist>>
    /\ UNCHANGED <<unstopped, sidevars>>

\* tests_completed += 1; return None.
early_count_completed ==
    /\ pc = "ef_inc_completed"
    /\ pc' = "ra_next"
    /\ tests_completed' = tests_completed + 1
    /\ Unwound
    /\ sampleInt' = NoSnapshot
    /\ UNCHANGED <<caller, attempt, test_num, tests_passed, tests_failed,
                   progress, raw_data, files, interrupted, abortAt>>
    /\ UNCHANGED <<unstopped, sidevars>>

Next ==
    \/ setup_session \/ verify_server \/ initial_check
    \/ restart_post \/ restart_poll \/ restart_reconnected
    \/ restart_give_up \/ restart_failed
    \/ loop_head \/ loop_next \/ summary
    \/ main_interrupted \/ main_fatal_error
    \/ run_test_begin \/ acquire_token \/ ensure_check \/ ensure_restart
    \/ phase1_begin \/ stop_chain \/ reset_anchor \/ configure_environment
    \/ reset_simulation \/ settle \/ initial_position \/ command
    \/ command_sent \/ loop_condition \/ sample_tick \/ loop_sleep
    \/ termination_check \/ interrupt_handler \/ error_handler
    \/ save_begin \/ save_record \/ save_logged \/ decide \/ decide_logged
    \/ count_completed \/ final_progress
    \/ early_failure \/ early_count_failed \/ early_count_completed
    \/ KeyboardInterrupt \/ OSError

Spec == Init /\ [][Next]_vars

\* The one thread of control always takes its next step: no call of the
\* program blocks for ever (every urlopen and subprocess.run carries a
\* timeout, every sleep is finite).
FairSpec == Spec /\ WF_vars(Next)

(* ---- run_all_tests over the whole matrix (MatrixSpec) ---- *)

\* The session's other variables stay as Init leaves them.
MatrixInit ==
    /\ RunnerInit
    /\ ConfigIdle
    /\ LogIdle
    /\ SampleIdle
    /\ ResetIdle
    /\ CollectIdle
    /\ SuiteIdle
    /\ ValidationIdle
    /\ ScenarioIdle
    /\ mx_pc = "mx_build"
    /\ mx_matrix = <<>>
    /\ mx_pos = 0
    /\ mx_num = 0
    /\ mx_ran = <<>>

\* Lines 519-526: test_num = 1 and the three nested loops.
build_matrix ==
    /\ mx_pc = "mx_build"
    /\ mx_pc' = "mx_loop"
    /\ mx_matrix' = WindLoop(WIND_SPEEDS, DEPTHS, 1)
    /\ mx_pos' = 1
    /\ mx_num' = 1
    /\ UNCHANGED <<mx_ran, runnervars, cfgvars, logvars, smpvars, rstvars,
                   colvars, suitevars, valvars, scnvars>>

\* Line 529: the head of "for wind, depth, test_type in test_matrix".
matrix_loop_head ==
    /\ mx_pc = "mx_loop"
    /\ mx_pc' = IF mx_pos <= Len(mx_matrix) THEN "mx_run" ELSE "mx_summary"
    /\ UNCHANGED <<mx_matrix, mx_pos, mx_num, mx_ran, runnervars, cfgvars,
                   logvars, smpvars,
                   rstvars, colvars, suitevars, valvars, scnvars>>

\* The arguments of run_test(test_num, wind, depth, test_type), line 530.
RunTestCall ==
    [test_num |-> mx_num,
     wind |-> mx_matrix[mx_pos].wind,
     depth |-> mx_matrix[mx_pos].depth,
     test_type |-> mx_matrix[mx_pos].test_type]

\* Line 530: run_test is called and returns.
matrix_run_test ==
    /\ mx_pc = "mx_run"
    /\ mx_pc' = "mx_next"
    /\ mx_ran' = Append(mx_ran, RunTestCall)
    /\ UNCHANGED <<mx_matrix, mx_pos, mx_num, runnervars, cfgvars, logvars,
                   smpvars,
                   rstvars, colvars, suitevars, valvars, scnvars>>

\* Line 530: run_test is called and an exception or an interrupt leaves it
\* and run_all_tests.
matrix_run_test_raises ==
    /\ mx_pc = "mx_run"
    /\ mx_pc' = "mx_left"
    /\ mx_ran' = Append(mx_ran, RunTestCall)
    /\ UNCHANGED <<mx_matrix, mx_pos, mx_num, runnervars, cfgvars, logvars,
                   smpvars,
                   rstvars, colvars, suitevars, valvars, scnvars>>

\* Lines 531-532 and the step of the for loop.
matrix_next ==
    /\ mx_pc = "mx_next"
    /\ mx_pc' = "mx_loop"
    /\ mx_num' = mx_num + 1
    /\ mx_pos' = mx_pos + 1
    /\ UNCHANGED <<mx_matrix, mx_ran, runnervars, cfgvars, logvars, smpvars,
                   rstvars, colvars, suitevars, valvars, scnvars>>

\* Lines 535-545.
matrix_summary ==
    /\ mx_pc = "mx_summary"
    /\ mx_pc' = "mx_done"
    /\ UNCHANGED <<mx_matrix, mx_pos, mx_num, mx_ran, runnervars, cfgvars,
                   logvars, smpvars,
                   rstvars, colvars, suitevars, valvars, scnvars>>

MatrixNext ==
    \/ build_matrix \/ matrix_loop_head \/ matrix_run_test
    \/ matrix_run_test_raises \/ matrix_next \/ matrix_summary

MatrixSpec == MatrixInit /\ [][MatrixNext]_vars

(* ---- configure_environment against the simulator (ConfigSpec) ---- *)

Range(seq) == {seq[i] : i \in DOMAIN seq}

\* Lines 197-205: the body of the PUT.
ConfigBody(wind_speed, depth) ==
    [wind |-> [initialSpeed |-> wind_speed, initialDirection |-> 180],
     environment |-> [depth |-> depth]]

\* The simulator's PUT /simulation/config taken as adding what it is sent to
\* what it has.
SimPutConfig_Adds(config, body) ==
    [wind |->
        [initialSpeed |-> config.wind.initialSpeed + body.wind.initialSpeed,
         initialDirection |-> body.wind.initialDirection],
     environment |->
        [depth |-> config.environment.depth + body.environment.depth]]

\* The simulator's PUT /simulation/config: the values sent replace the
\* values held, the others stay.  The simulator is the plugin, which is not
\* among the sources; this is the Configurator contract of the
\* specification ("Config endpoint returns the new config", line 213).
SimPutConfig(config, body) ==
    [wind |->
        [initialSpeed |->
            Get(Get(body, "wind", EmptyDict), "initialSpeed",
                config.wind.initialSpeed),
         initialDirection |->
            Get(Get(body, "wind", EmptyDict), "initialDirection",
                config.wind.initialDirection)],
     environment |->
        [depth |->
            Get(Get(body, "environment", EmptyDict), "depth",
                config.environment.depth)]]

\* The wind speed and depth the simulator reports.
SimReport(config) ==
    [wind |-> config.wind.initialSpeed, depth |-> config.environment.depth]

\* The configurations the simulator may hold when a session meets it.
SimStartConfigs ==
    {[wind |-> [initialSpeed |-> w, initialDirection |-> dir],
      environment |-> [depth |-> d]] :
        w \in Range(WIND_SPEEDS), dir \in {0, 180}, d \in Range(DEPTHS)}

\* How one configure_environment call goes: no token (line 192), the PUT
\* refused or lost before the simulator took it, taken but the response
\* lost, taken and answered with null, taken and answered with the config.
ConfigOutcomes == {"no_token", "refused", "lost", "null", "ok"}

ConfigInit ==
    /\ RunnerInit
    /\ MatrixIdle
    /\ LogIdle
    /\ SampleIdle
    /\ ResetIdle
    /\ CollectIdle
    /\ SuiteIdle
    /\ ValidationIdle
    /\ ScenarioIdle
    /\ sim_config \in SimStartConfigs
    /\ cfg_args = <<>>
    /\ cfg_once = EmptyDict
    /\ cfg_twice = FALSE
    /\ cfg_result = "none"

\* Lines 188-217: one call of configure_environment(wind_speed, depth).
apply_configuration ==
    \E wind_speed \in Range(WIND_SPEEDS), depth \in Range(DEPTHS),
       outcome \in ConfigOutcomes :
        LET taken == outcome \in {"lost", "null", "ok"}
            args == <<[wind_speed |-> wind_speed, depth |-> depth]>>
            new == SimPutConfig(sim_config, ConfigBody(wind_speed, depth))
        IN  /\ sim_config' = IF taken THEN new ELSE sim_config
            /\ cfg_result' = IF outcome = "ok" THEN "True" ELSE "False"
            /\ cfg_args' = IF taken THEN args ELSE cfg_args
            /\ cfg_twice' = IF taken THEN cfg_args = args ELSE cfg_twice
            /\ cfg_once' = IF taken /\ cfg_args # args THEN SimReport(new)
                           ELSE cfg_once
            /\ UNCHANGED <<runnervars, mxvars, logvars, smpvars, rstvars,
                           colvars, suitevars, valvars, scnvars>>

ConfigNext == apply_configuration

ConfigSpec == ConfigInit /\ [][ConfigNext]_vars

(* ---- the session's log and progress files (LogSpec) ---- *)

\* What open(name, mode) leaves of a file's content: 'w' truncates, 'a'
\* keeps.
Opened(content, mode) == IF mode = "w" THEN <<>> ELSE content

\* log_test taken with open(TEST_LOG, 'w').
log_test_Truncating(content, message) ==
    Append(Opened(content, "w"), message)

\* log_test (lines 69-73): open(TEST_LOG, 'a'); f.write(message + '\n').
log_test(content, message) ==
    Append(Opened(content, "a"), message)

\* The messages of the session, as far as the log can tell them apart.
Messages == {"phase", "result"}

\* TEST_LOG.md of an earlier session of the same day may be there
\* (SESSION_DIR is named by the date, mkdir(exist_ok=True)).
LogInit ==
    /\ RunnerInit
    /\ MatrixIdle
    /\ ConfigIdle
    /\ SampleIdle
    /\ ResetIdle
    /\ CollectIdle
    /\ SuiteIdle
    /\ ValidationIdle
    /\ ScenarioIdle
    /\ log_pc = "start"
    /\ test_log \in {<<>>, <<"header", "result">>}
    /\ progress_file = <<>>

\* Lines 58-64: setup_session starts the log afresh.
log_setup_session ==
    /\ log_pc = "start"
    /\ log_pc' = "ready"
    /\ test_log' = Append(Opened(test_log, "w"), "header")
    /\ UNCHANGED <<progress_file, runnervars, mxvars, cfgvars, smpvars,
                   rstvars, colvars, suitevars, valvars, scnvars>>

\* Any log_test call of the session; the write may fail before a line is
\* out.
log_test_call ==
    /\ log_pc = "ready"
    /\ Len(test_log) < MaxLogLines
    /\ \E message \in Messages, written \in BOOLEAN :
          test_log' = IF written THEN log_test(test_log, message)
                      ELSE Opened(test_log, "a")
    /\ UNCHANGED <<log_pc, progress_file, runnervars, mxvars, cfgvars, smpvars,
                   rstvars, colvars, suitevars, valvars, scnvars>>

\* Lines 75-83: update_progress rewrites PROGRESS.txt.
log_update_progress ==
    /\ log_pc = "ready"
    /\ \E status \in {"RUNNING", "DONE", "FAILED"} :
          progress_file' = Append(Opened(progress_file, "w"), status)
    /\ UNCHANGED <<log_pc, test_log, runnervars, mxvars, cfgvars, smpvars,
                   rstvars, colvars, suitevars, valvars, scnvars>>

LogNext == log_setup_session \/ log_test_call \/ log_update_progress

LogSpec == LogInit /\ [][LogNext]_vars

(* ---- one tick of collect_sample, from what the server answers ---- *)

SampleInit ==
    /\ RunnerInit
    /\ MatrixIdle
    /\ ConfigIdle
    /\ LogIdle
    /\ ResetIdle
    /\ CollectIdle
    /\ SuiteIdle
    /\ ValidationIdle
    /\ ScenarioIdle
    /\ cs_pc = "read"
    /\ cs_reads = NoReads
    /\ cs_sample = EmptyDict

\* Lines 298-301: get_position, get_speed, get_heading and
\* get_simulation_state, each None when its request failed.
read_telemetry ==
    /\ cs_pc = "read"
    /\ cs_pc' = "collect"
    /\ \E pos \in PositionReads, speed \in SpeedReads,
          answer \in HeadingAnswers, sim_state \in SimReads :
          cs_reads' = [pos |-> pos, speed |-> speed,
                       heading |-> get_heading(answer),
                       sim_state |-> sim_state]
    /\ UNCHANGED <<cs_sample, runnervars, mxvars, cfgvars, logvars, rstvars,
                   colvars, suitevars, valvars, scnvars>>

\* Lines 303-329: the Sample of the tick, or None.
collect ==
    /\ cs_pc = "collect"
    /\ cs_pc' = "done"
    /\ \E now \in 0..TimeoutTicks :
          cs_sample' = collect_sample(cs_reads.pos, cs_reads.speed,
                                      cs_reads.heading, cs_reads.sim_state,
                                      now)
    /\ UNCHANGED <<cs_reads, runnervars, mxvars, cfgvars, logvars, rstvars,
                   colvars, suitevars, valvars, scnvars>>

SampleNext == read_telemetry \/ collect

SampleSpec == SampleInit /\ [][SampleNext]_vars

(* ---- reset_anchor.py, from what the server answers ---- *)

\* range(10) of line 67: the polls that verify the reset.
VerifyPolls == 10

\* Line 72, "rode < 0.5", in decimetres.
ResetThreshold == 5

\* What get_rode_deployed returns: None when the request failed, else the
\* value read, in decimetres.
RodeReads == {None, Some(0), Some(4), Some(5), Some(250)}

\* Line 72 with "rode <= 0.5".
Verified_Inclusive(rode) == rode # None /\ rode[1] <= ResetThreshold

\* Lines 70-72: "if rode is not None: ... if rode < 0.5".
Verified(rode) == rode # None /\ rode[1] < ResetThreshold

ResetInit ==
    /\ RunnerInit
    /\ MatrixIdle
    /\ ConfigIdle
    /\ LogIdle
    /\ SampleIdle
    /\ CollectIdle
    /\ SuiteIdle
    /\ ValidationIdle
    /\ ScenarioIdle
    /\ ra_pc = "start"
    /\ ra_attempt = 0
    /\ ra_misses = 0
    /\ ra_last = <<>>
    /\ ra_put = FALSE
    /\ ra_result = "none"

\* Lines 50-58: get_auth_token, and the read of the current rode, which is
\* only printed.
reset_authenticate ==
    /\ ra_pc = "start"
    /\ \E got_token \in BOOLEAN, current \in RodeReads :
          /\ ra_pc' = IF got_token THEN "put" ELSE "done"
          /\ ra_result' = IF got_token THEN ra_result ELSE "False"
    /\ UNCHANGED <<ra_attempt, ra_misses, ra_last, ra_put, runnervars,
                   mxvars, cfgvars, logvars, smpvars, colvars, suitevars,
                   valvars, scnvars>>

\* Lines 60-63: reset_rode; False when the PUT raised.
reset_put ==
    /\ ra_pc = "put"
    /\ \E accepted \in BOOLEAN :
          /\ ra_put' = accepted
          /\ ra_pc' = IF accepted THEN "poll" ELSE "done"
          /\ ra_result' = IF accepted THEN ra_result ELSE "False"
    /\ UNCHANGED <<ra_attempt, ra_misses, ra_last, runnervars, mxvars,
                   cfgvars, logvars, smpvars, colvars, suitevars, valvars,
                   scnvars>>

\* Lines 67-75: one pass of "for attempt in range(10)".
reset_poll ==
    /\ ra_pc = "poll"
    /\ ra_attempt < VerifyPolls
    /\ \E rode \in RodeReads :
          /\ ra_attempt' = ra_attempt + 1
          /\ ra_last' = rode
          /\ ra_misses' = IF rode = None THEN ra_misses + 1 ELSE ra_misses
          /\ ra_pc' = IF Verified(rode) THEN "done" ELSE "poll"
          /\ ra_result' = IF Verified(rode) THEN "True" ELSE ra_result
    /\ UNCHANGED <<ra_put, runnervars, mxvars, cfgvars, logvars, smpvars,
                   colvars, suitevars, valvars, scnvars>>

\* Lines 77-78: the loop has run out.
reset_unverified ==
    /\ ra_pc = "poll"
    /\ ra_attempt = VerifyPolls
    /\ ra_pc' = "done"
    /\ ra_result' = "False"
    /\ UNCHANGED <<ra_attempt, ra_misses, ra_last, ra_put, runnervars,
                   mxvars, cfgvars, logvars, smpvars, colvars, suitevars,
                   valvars, scnvars>>

ResetNext ==
    reset_authenticate \/ reset_put \/ reset_poll \/ reset_unverified

ResetSpec == ResetInit /\ [][ResetNext]_vars

(* ---- the collection loops of test_autodrop_retrieve.py ---- *)

\* The duration of a collection loop in passes of one second
\* (duration_seconds, and 300 at line 835).
CollectTicks == 11

\* max_consecutive_none of lines 501 and 833.
MaxConsecutiveNone == 10

\* Lines 514 and 846: check_and_engage is called when 2 s have gone by since
\* last_motor_action.
MotorCheckPeriod == 2

\* min_speed_threshold of the two loops (lines 498 and 830), and the band of
\* line 394, in hundredths of a metre per second.
DeployThreshold == 20

RetrieveThreshold == 15

DisengageBand == 10

\* The boat speeds a pass can meet: the two thresholds, the two upper ends
\* of the band, and values beside them.
BoatSpeeds == {0, 14, 15, 19, 20, 25, 26, 30, 31}

\* SpeedMonitor.__init__, lines 351-364.
SpeedMonitor(operation_type, min_speed_threshold) ==
    [operation_type |-> operation_type,
     min_speed_threshold |-> min_speed_threshold,
     motor_active |-> FALSE,
     motor_engagement_count |-> 0,
     motor_engagement_times |-> <<>>,
     last_engagement_time |-> None]

\* The request check_and_engage makes with the band's upper end included.
motor_request_BandClosed(m, boat_speed) ==
    IF boat_speed < m.min_speed_threshold
    THEN IF ~m.motor_active
         THEN (IF m.operation_type = "deploy" THEN "motor_backward"
               ELSE "motor_forward")
         ELSE "none"
    ELSE IF m.motor_active
            /\ boat_speed >= m.min_speed_threshold + DisengageBand
         THEN "motor_stop"
         ELSE "none"

\* Lines 379-398: the request check_and_engage makes of the simulator.
motor_request(m, boat_speed) ==
    IF boat_speed < m.min_speed_threshold
    THEN IF ~m.motor_active
         THEN (IF m.operation_type = "deploy" THEN "motor_backward"
               ELSE "motor_forward")
         ELSE "none"
    ELSE IF m.motor_active
            /\ boat_speed > m.min_speed_threshold + DisengageBand
         THEN "motor_stop"
         ELSE "none"

\* Lines 366-400, check_and_engage: the monitor after the call.  What the
\* motor request returned is not read.
check_and_engage(m, boat_speed, current_time) ==
    LET request == motor_request(m, boat_speed)
    IN  IF request \in {"motor_backward", "motor_forward"}
        THEN [m EXCEPT !.motor_active = TRUE,
                       !.motor_engagement_count = @ + 1,
                       !.motor_engagement_times = Append(@, current_time),
                       !.last_engagement_time = Some(current_time)]
        ELSE IF request = "motor_stop"
        THEN [m EXCEPT !.motor_active = FALSE]
        ELSE m

\* What is remembered of the motor requests: how many engage requests were
\* made, whether the simulator acknowledged the latest one and no stop has
\* been requested since, and the latest call with the monitor before it.
NoRequests ==
    [engages |-> 0, acknowledged |-> FALSE, request |-> "none",
     boat_speed |-> 0, was_active |-> FALSE]

Requested(log, m, boat_speed, ack) ==
    LET request == motor_request(m, boat_speed)
    IN  [engages |-> IF request \in {"motor_backward", "motor_forward"}
                     THEN log.engages + 1 ELSE log.engages,
         acknowledged |-> IF request \in {"motor_backward", "motor_forward"}
                          THEN ack
                          ELSE IF request = "motor_stop" THEN FALSE
                          ELSE log.acknowledged,
         request |-> request,
         boat_speed |-> boat_speed,
         was_active |-> m.motor_active]

CollectInit ==
    /\ RunnerInit
    /\ MatrixIdle
    /\ ConfigIdle
    /\ LogIdle
    /\ SampleIdle
    /\ ResetIdle
    /\ SuiteIdle
    /\ ValidationIdle
    /\ ScenarioIdle
    /\ lg_pc = "loop"
    /\ lg_elapsed = 0
    /\ consecutive_none_count = 0
    /\ lg_run = 0
    /\ lg_missed = 0
    /\ lg_end = "none"
    /\ last_motor_action = 0
    /\ motor_log = NoRequests
    /\ speed_monitor \in {SpeedMonitor("deploy", DeployThreshold),
                         SpeedMonitor("retrieve", RetrieveThreshold)}

\* One pass of the while loop (lines 503-542 and 835-872) with a failed read
\* counted but the count not reset by a good one.
collect_pass_NeverReset ==
    /\ lg_pc = "loop"
    /\ lg_elapsed < CollectTicks
    /\ \E got \in BOOLEAN, boat_speed \in BoatSpeeds, ack \in BOOLEAN :
          IF got
          THEN /\ lg_run' = 0
               /\ lg_elapsed' = lg_elapsed + 1
               /\ IF lg_elapsed - last_motor_action >= MotorCheckPeriod
                  THEN /\ speed_monitor' = check_and_engage(speed_monitor,
                                                boat_speed, lg_elapsed)
                       /\ motor_log' = Requested(motor_log, speed_monitor,
                                                 boat_speed, ack)
                       /\ last_motor_action' = lg_elapsed
                  ELSE UNCHANGED <<speed_monitor, motor_log,
                                   last_motor_action>>
               /\ UNCHANGED <<consecutive_none_count, lg_pc, lg_missed,
                              lg_end>>
          ELSE /\ consecutive_none_count' = consecutive_none_count + 1
               /\ lg_run' = lg_run + 1
               /\ lg_missed' = lg_missed + 1
               /\ IF consecutive_none_count' >= MaxConsecutiveNone
                  THEN lg_pc' = "done" /\ lg_end' = "early"
                                      /\ lg_elapsed' = lg_elapsed
                  ELSE lg_pc' = "loop" /\ lg_end' = lg_end
                                      /\ lg_elapsed' = lg_elapsed + 1
               /\ UNCHANGED <<speed_monitor, motor_log, last_motor_action>>
    /\ UNCHANGED <<runnervars, mxvars, cfgvars, logvars, smpvars, rstvars,
                   suitevars, valvars, scnvars>>

\* One pass of the while loop, lines 503-542 (record_deployment) and 835-872
\* (main): get_current_metrics, then the sample and the motor check, or the
\* count of failed reads; time.sleep(1).  The status print (525-540) never
\* runs, last_print being a clock time compared with elapsed.
collect_pass ==
    /\ lg_pc = "loop"
    /\ lg_elapsed < CollectTicks
    /\ \E got \in BOOLEAN, boat_speed \in BoatSpeeds, ack \in BOOLEAN :
          IF got
          THEN /\ consecutive_none_count' = 0
               /\ lg_run' = 0
               /\ lg_elapsed' = lg_elapsed + 1
               /\ IF lg_elapsed - last_motor_action >= MotorCheckPeriod
                  THEN /\ speed_monitor' = check_and_engage(speed_monitor,
                                                boat_speed, lg_elapsed)
                       /\ motor_log' = Requested(motor_log, speed_monitor,
                                                 boat_speed, ack)
                       /\ last_motor_action' = lg_elapsed
                  ELSE UNCHANGED <<speed_monitor, motor_log,
                                   last_motor_action>>
               /\ UNCHANGED <<lg_pc, lg_missed, lg_end>>
          ELSE /\ consecutive_none_count' = consecutive_none_count + 1
               /\ lg_run' = lg_run + 1
               /\ lg_missed' = lg_missed + 1
               /\ IF consecutive_none_count' >= MaxConsecutiveNone
                  THEN lg_pc' = "done" /\ lg_end' = "early"
                                      /\ lg_elapsed' = lg_elapsed
                  ELSE lg_pc' = "loop" /\ lg_end' = lg_end
                                      /\ lg_elapsed' = lg_elapsed + 1
               /\ UNCHANGED <<speed_monitor, motor_log, last_motor_action>>
    /\ UNCHANGED <<runnervars, mxvars, cfgvars, logvars, smpvars, rstvars,
                   suitevars, valvars, scnvars>>

\* Lines 503 and 835: the loop condition fails.
collect_duration_over ==
    /\ lg_pc = "loop"
    /\ lg_elapsed >= CollectTicks
    /\ lg_pc' = "done"
    /\ lg_end' = "duration"
    /\ UNCHANGED <<lg_elapsed, consecutive_none_count, lg_run, lg_missed,
                   last_motor_action, speed_monitor, motor_log, runnervars,
                   mxvars, cfgvars, logvars, smpvars, rstvars, suitevars,
                   valvars, scnvars>>

CollectNext == collect_pass \/ collect_duration_over

CollectSpec == CollectInit /\ [][CollectNext]_vars

(* ---- main of test_autodrop_retrieve.py: the wind-speed loop ---- *)

\* Line 771 (and 805): wind_speeds = [15, 10, 5].
LegacyWinds == <<15, 10, 5>>

\* What one autoDrop test comes to: record_deployment returned None, or
\* check_deployment_complete found the scope under or at the target.
DeploymentOutcomes == {"none", "incomplete", "complete"}

SuiteInit ==
    /\ RunnerInit
    /\ MatrixIdle
    /\ ConfigIdle
    /\ LogIdle
    /\ SampleIdle
    /\ ResetIdle
    /\ CollectIdle
    /\ ValidationIdle
    /\ ScenarioIdle
    /\ su_pc = "setup"
    /\ wind_speeds = <<15, 10, 5>>
    /\ su_wind = 0
    /\ su_iter = [list |-> <<>>, pos |-> 1]
    /\ su_tested = <<>>
    /\ su_results = 0

\* Lines 757-768: setup_environment and get_auth_token; line 774 takes the
\* iterator of the list wind_speeds names at that moment.
suite_setup ==
    /\ su_pc = "setup"
    /\ \E ready \in BOOLEAN :
          su_pc' = IF ready THEN "for" ELSE "done"
    /\ su_iter' = [list |-> wind_speeds, pos |-> 1]
    /\ UNCHANGED <<wind_speeds, su_wind, su_tested, su_results, runnervars,
                   mxvars, cfgvars, logvars, smpvars, rstvars, colvars,
                   valvars, scnvars>>

\* Line 774, "for wind_speed in wind_speeds": the next element of the list
\* the iterator was made from.
suite_for ==
    /\ su_pc = "for"
    /\ IF su_iter.pos <= Len(su_iter.list)
       THEN /\ su_wind' = su_iter.list[su_iter.pos]
            /\ su_iter' = [su_iter EXCEPT !.pos = @ + 1]
            /\ su_pc' = "deploy"
       ELSE /\ su_pc' = "done"
            /\ UNCHANGED <<su_wind, su_iter>>
    /\ UNCHANGED <<wind_speeds, su_tested, su_results, runnervars, mxvars,
                   cfgvars, logvars, smpvars, rstvars, colvars, valvars,
                   scnvars>>

\* Lines 780-797: record_deployment and check_deployment_complete.
suite_deploy ==
    /\ su_pc = "deploy"
    /\ \E outcome \in DeploymentOutcomes :
          /\ su_tested' = Append(su_tested,
                                 [wind |-> su_wind, outcome |-> outcome])
          /\ su_results' = IF outcome = "complete" THEN su_results + 1
                           ELSE su_results
          /\ su_pc' = IF outcome = "complete" THEN "settle" ELSE "retry"
    /\ UNCHANGED <<wind_speeds, su_wind, su_iter, runnervars, mxvars,
                   cfgvars, logvars, smpvars, rstvars, colvars, valvars,
                   scnvars>>

\* Lines 799-806: reset_anchor(), the name wind_speeds bound to a new list,
\* continue.
suite_retry ==
    /\ su_pc = "retry"
    /\ wind_speeds' = LegacyWinds
    /\ su_pc' = "for"
    /\ UNCHANGED <<su_wind, su_iter, su_tested, su_results, runnervars,
                   mxvars, cfgvars, logvars, smpvars, rstvars, colvars,
                   valvars, scnvars>>

\* Lines 808-817: the 300 s wait at anchor.
suite_settle ==
    /\ su_pc = "settle"
    /\ su_pc' = "retrieve"
    /\ UNCHANGED <<wind_speeds, su_wind, su_iter, su_tested, su_results,
                   runnervars, mxvars, cfgvars, logvars, smpvars, rstvars,
                   colvars, valvars, scnvars>>

\* Lines 819-903: the autoRetrieve test, the 30 s wait, reset_anchor() and
\* the pause before the next wind speed.
suite_retrieve ==
    /\ su_pc = "retrieve"
    /\ su_pc' = "for"
    /\ UNCHANGED <<wind_speeds, su_wind, su_iter, su_tested, su_results,
                   runnervars, mxvars, cfgvars, logvars, smpvars, rstvars,
                   colvars, valvars, scnvars>>

SuiteNext ==
    \/ suite_setup \/ suite_for \/ suite_deploy \/ suite_retry
    \/ suite_settle \/ suite_retrieve

SuiteSpec == SuiteInit /\ [][SuiteNext]_vars

(* ---- run_validation_tests.run_single_test and its child ---- *)

\* Lines 105-106 and 161 of run_validation_tests.py, in seconds.
stall_threshold == 80

test_timeout == 240

CheckPeriod == 5

\* simple_autodrop_test.py: the collection loop of line 211 runs 240 s, and
\* run_test sleeps 1 + 2 s before it and 1 + 1 s after it (179, 183, 264,
\* 266).
ChildCollect == 240

ChildSleeps == 5

\* When the child exits by itself, in seconds after test_start: at once when
\* its authentication fails (exit status 1), else after its sleeps, its
\* collection and what its requests and its two reset_anchor() calls take.
ChildExits ==
    {1} \cup {ChildSleeps + ChildCollect + extra : extra \in {0, 2, 5}}

\* The child ran its whole collection.
FullRun(exit_at) == exit_at >= ChildSleeps + ChildCollect

\* What one pass of the monitor loop takes: time.sleep(5) and the position
\* read, whose request times out after 2 s.
PassSeconds == {CheckPeriod + read : read \in 0..2}

ValidationInit ==
    /\ RunnerInit
    /\ MatrixIdle
    /\ ConfigIdle
    /\ LogIdle
    /\ SampleIdle
    /\ ResetIdle
    /\ CollectIdle
    /\ SuiteIdle
    /\ ScenarioIdle
    /\ rv_pc = "start"
    /\ rv_elapsed = 0
    /\ last_movement_time = 0
    /\ rv_child_exit = 0
    /\ rv_killed = FALSE
    /\ rv_still = FALSE
    /\ rv_result = "none"

\* Lines 84-116: stop, reset, the first position, Popen.
validation_start ==
    /\ rv_pc = "start"
    /\ \E reset_ok \in BOOLEAN, position \in BOOLEAN, started \in BOOLEAN,
          exit_at \in ChildExits :
          IF reset_ok /\ position /\ started
          THEN /\ rv_pc' = "monitor"
               /\ rv_child_exit' = exit_at
               /\ UNCHANGED rv_result
          ELSE /\ rv_pc' = "done"
               /\ rv_result' = "False"
               /\ UNCHANGED rv_child_exit
    /\ UNCHANGED <<rv_elapsed, last_movement_time, rv_killed, rv_still,
                   runnervars, mxvars, cfgvars, logvars, smpvars, rstvars,
                   colvars, suitevars, scnvars>>

\* Lines 119-161, one pass of "while True": proc.poll(), the timeout, the
\* stall check, time.sleep(5).
validation_pass ==
    /\ rv_pc = "monitor"
    /\ IF rv_elapsed >= rv_child_exit
       THEN /\ rv_pc' = "done"
            /\ rv_result' = "True"
            /\ UNCHANGED <<rv_elapsed, last_movement_time, rv_killed,
                           rv_still>>
       ELSE IF rv_elapsed > test_timeout
       THEN /\ rv_pc' = "done"
            /\ rv_result' = "False"
            /\ rv_killed' = TRUE
            /\ UNCHANGED <<rv_elapsed, last_movement_time, rv_still>>
       ELSE \E position \in BOOLEAN, moved \in BOOLEAN,
               seconds \in PassSeconds :
               IF position /\ ~moved
                  /\ rv_elapsed - last_movement_time > stall_threshold
               THEN /\ rv_pc' = "done"
                    /\ rv_result' = "False"
                    /\ rv_killed' = TRUE
                    /\ rv_still' = TRUE
                    /\ UNCHANGED <<rv_elapsed, last_movement_time>>
               ELSE /\ last_movement_time' = IF position /\ moved
                                             THEN rv_elapsed
                                             ELSE last_movement_time
                    /\ rv_still' = (rv_still \/ ~(position /\ moved))
                    /\ rv_elapsed' = rv_elapsed + seconds
                    /\ UNCHANGED <<rv_pc, rv_result, rv_killed>>
    /\ UNCHANGED <<rv_child_exit, runnervars, mxvars, cfgvars, logvars,
                   smpvars, rstvars, colvars, suitevars, scnvars>>

ValidationNext == validation_start \/ validation_pass

ValidationSpec == ValidationInit /\ [][ValidationNext]_vars

(* ---- test_scenarios.py: run_all_scenarios and main ---- *)

\* Lines 259-266: the scenarios, by the functions that run them.
Scenarios ==
    <<"scenario_anchor_drop_12kn_wind", "scenario_chain_deployment_physics",
      "scenario_heading_transition", "scenario_auto_retrieval",
      "scenario_motor_forward", "scenario_motor_backward">>

\* How a scenario function ends: it returns True, it returns False, or it
\* raises.
ScenarioEnds == {"True", "False", "raised"}

\* Python's truth value of a dict: it has a member.
TruthyDict(d) == DOMAIN d # {}

\* test_harness.py lines 196-242, SignalKTestHarness.run_test: the result
\* dict.  What test_fn() returned is dropped (line 226); 'success' tells
\* only that it did not raise.
harness_run_test(end) ==
    [success |-> end # "raised",
     error |-> IF end = "raised" THEN "error" ELSE "None"]

\* Lines 281-283: "if success", "PASS" if success else "FAIL".
Reported(success) == TruthyDict(success)

ScenarioInit ==
    /\ RunnerInit
    /\ MatrixIdle
    /\ ConfigIdle
    /\ LogIdle
    /\ SampleIdle
    /\ ResetIdle
    /\ CollectIdle
    /\ SuiteIdle
    /\ ValidationIdle
    /\ sc_pc = "main"
    /\ sc_results = <<>>
    /\ sc_ends = <<>>
    /\ sc_main = "none"

\* Lines 298-308 of main: is_server_ready.
scenarios_begin ==
    /\ sc_pc = "main"
    /\ \E ready \in BOOLEAN :
          /\ sc_pc' = IF ready THEN "for" ELSE "done"
          /\ sc_main' = IF ready THEN sc_main ELSE "False"
    /\ UNCHANGED <<sc_results, sc_ends, runnervars, mxvars, cfgvars, logvars,
                   smpvars, rstvars, colvars, suitevars, valvars>>

\* Lines 269-279: one pass of the loop over the scenarios.
run_scenario ==
    /\ sc_pc = "for"
    /\ Len(sc_results) < Len(Scenarios)
    /\ \E end \in ScenarioEnds :
          /\ sc_results' = Append(sc_results, harness_run_test(end))
          /\ sc_ends' = Append(sc_ends, end)
    /\ UNCHANGED <<sc_pc, sc_main, runnervars, mxvars, cfgvars, logvars,
                   smpvars, rstvars, colvars, suitevars, valvars>>

\* Lines 281-293 and 311-314: the summary, and main's
\* "all(success for _, success in results)".
scenarios_summary ==
    /\ sc_pc = "for"
    /\ Len(sc_results) = Len(Scenarios)
    /\ sc_pc' = "done"
    /\ sc_main' = IF \A i \in DOMAIN sc_results : Reported(sc_results[i])
                  THEN "True" ELSE "False"
    /\ UNCHANGED <<sc_results, sc_ends, runnervars, mxvars, cfgvars, logvars,
                   smpvars, rstvars, colvars, suitevars, valvars>>

ScenarioNext == scenarios_begin \/ run_scenario \/ scenarios_summary

ScenarioSpec == ScenarioInit /\ [][ScenarioNext]_vars

(* ---- the claims ---- *)

\* The statements that read the session counters: update_progress (lines 337
\* and 491), the final summary (535-540) and the interrupt message (558).
ObservationPcs == {"rt_begin", "pf_progress", "ra_summary", "main_int"}

\* The exception that ended run_all_tests rose inside run_test.
LeftRunTest ==
    \/ abortAt \in RunTestPcs
    \/ abortAt \in RestartTryPcs \cup {"rcc_exc"} /\ caller = "run_test"

\* The positions of run_test after its record has been written.
AfterSavePcs ==
    {"p4_saved", "pf_decide", "pf_log", "pf_inc_completed", "pf_progress"}

\* The records written for the TestCase in progress.
RecordsOfCurrent ==
    {i \in DOMAIN raw_data : raw_data[i].test_metadata.test_number = test_num}

\* C1: wherever the session counters are observed (each update_progress, the
\* final summary, the interrupt message), tests_completed equals
\* tests_passed + tests_failed and does not exceed total_tests.
C1_CountersConsistentWhenObserved ==
    pc \in ObservationPcs =>
        /\ tests_completed = tests_passed + tests_failed
        /\ tests_completed <= total_tests

\* C2: no failure inside a TestCase propagates out of run_test: the session
\* never reaches the fatal-error handler of __main__ through an exception
\* raised inside run_test.
C2_NoErrorLeavesRunTest ==
    pc = "main_fatal" => ~LeftRunTest

\* C3: tests_passed is incremented only for a TestCase whose completion
\* condition fired.
C3_PassedOnlyWhenCompleted ==
    [][tests_passed' # tests_passed => endReason = "completed"]_vars

\* C4: the record of a TestRun is marked timed out exactly when its sampling
\* loop ended by reaching TEST_TIMEOUT without completion.
C4_TimeoutFlagMeansTimedOut ==
    pc = "p4_saved" =>
        (Last(raw_data).test_metadata.timeout <=> endReason = "timeout")

\* C5: once more than StallThreshold consecutive ticks have passed without a
\* Sample, no further tick is sampled, and the TestRun is counted failed.
C5_StallEndsRunAsFailed ==
    /\ pc = "sl_sample" => misses <= StallThreshold
    /\ (pc = "pf_decide" /\ misses > StallThreshold) =>
           ~Passed(samples, test_data(test_num, case, samples))

\* C6: a call rejected for authorization does not just fail: the client has
\* acquired a fresh token for it (a second token in this TestCase).
C6_RejectedCallReauthenticates ==
    authRejected => token >= 2

\* C7: after an operator interrupt no further TestCase is started.
C7_NoTestStartsAfterInterrupt ==
    [][(interrupted /\ pc = "ra_loop") => pc' # "rt_begin"]_vars

\* C8: an operator interrupt in the sampling loop does not leave run_test,
\* and the record run_test then writes for the TestRun holds, in order, every
\* Sample collected before the interrupt.
C8_InterruptedSamplesPersisted ==
    /\ pc \in {"main_int", "exit_int"} => abortAt \notin SamplingPcs
    /\ (pc \in AfterSavePcs /\ sampleInt # NoSnapshot) =>
           /\ Cardinality(RecordsOfCurrent) = 1
           /\ Last(raw_data).test_metadata.test_number = test_num
           /\ IsPrefix(sampleInt[1], Last(raw_data).samples)

\* C8 witness: the record of a TestRun interrupted in its loop after a Sample
\* had been collected has just been written.
C8_Witness ==
    /\ pc = "p4_saved"
    /\ endReason = "interrupt"
    /\ sampleInt # NoSnapshot
    /\ Len(sampleInt[1]) > 0

\* C9: when run_test returns, exactly one record has been written for its
\* TestCase.
C9_OneRecordPerTestCase ==
    pc = "ra_next" => Cardinality(RecordsOfCurrent) = 1

\* C10: when run_test returns, the progress record no longer says RUNNING and
\* its Completed/Passed/Failed equal the session counters.
C10_ProgressRewrittenAfterTest ==
    pc = "ra_next" =>
        /\ progress.status # "RUNNING"
        /\ progress.completed = tests_completed
        /\ progress.passed = tests_passed
        /\ progress.failed = tests_failed

\* C11: once the restart POST has been accepted, a health-check poll is made
\* only while fewer than ReconnectAttempts polls have failed; a successful
\* poll is followed by no further poll and only it leads to the return of
\* True; the "did not reconnect" report is reached exactly when
\* ReconnectAttempts polls have failed.
C11_AtMostFivePolls ==
    /\ [](/\ pc = "rcc_poll" => attempt < ReconnectAttempts
          /\ pc = "rcc_ok" => attempt < ReconnectAttempts
          /\ pc = "rcc_fail" => attempt = ReconnectAttempts)
    /\ [][/\ pc = "rcc_ok" => pc' # "rcc_poll"
          /\ pc' = "rcc_fail" => pc = "rcc_poll"
          /\ (pc = "rcc_poll" /\ pc' \in {"rt_phase1", "ra_loop"}) => FALSE]_vars

\* C11 witness: the fifth poll in a row has failed and the failure is about
\* to be reported.
C11_Witness ==
    pc = "rcc_fail" /\ attempt = ReconnectAttempts

\* C12: ensure_chain_controller starts the restart flow exactly when its
\* health-check read does not carry a $source beginning with 'ws.': it goes
\* on without a restart only on such a tag, and an empty tag, another prefix
\* or a failed read always leads to the restart.
C12_RestartIffNoWsSource ==
    /\ pc = "ecc_log" =>
           /\ lastHealth # NoRead
           /\ \/ lastHealth.status # "ok"
              \/ ~StartsWith(lastHealth.source, <<"w", "s", ".">>)
    /\ (pc = "rt_phase1" /\ lastHealth # NoRead) =>
           /\ lastHealth.status = "ok"
           /\ StartsWith(lastHealth.source, <<"w", "s", ".">>)

\* C12 witness: a read that went through but carries the tag of another
\* source has started the restart flow.
C12_Witness ==
    /\ pc = "ecc_log"
    /\ lastHealth.status = "ok"
    /\ lastHealth.source = <<"n", "2", "k">>

\* The positions of run_test at and after configure_environment, up to the
\* end of the sampling loop: configure_environment, reset_simulation and
\* send_command are called from these only.
ConfigureOnwardPcs ==
    {"rt_config", "rt_simreset", "rt_settle", "rt_startpos", "rt_latlon",
     "rt_command", "rt_ackcheck", "rt_cmdlog"} \cup SamplingPcs

\* C13: run_test is at configure_environment, reset_simulation or
\* send_command (or past them) only when ensure_chain_controller returned
\* True in this TestCase.
C13_ConfigureOnlyWhenReachable ==
    pc \in ConfigureOnwardPcs => controllerOk

\* C13 witness: ensure_chain_controller has returned True and the TestCase
\* is about to send its command.
C13_Witness ==
    pc = "rt_command" /\ controllerOk

\* C14: the session is never ended because the chain controller could not be
\* restarted, the health check before the first TestCase included.
C14_UnreachableNeverEndsSession ==
    pc = "exit_1" => abortAt # "ra_restart"

\* The phases of a TestCase, RESET as stop_chain then reset_anchor and
\* CONFIGURE as configure_environment then reset_simulation.
PhaseOrder ==
    <<"HEALTH_CHECK", "STOP", "ANCHOR_RESET", "APPLY", "SIM_RESET", "COMMAND",
      "SAMPLE", "FINALIZE">>

\* C15: the phases a TestCase has entered are always a beginning of
\* PhaseOrder: each at most once, none out of order, none skipped; so the
\* command is sent at most once, and after RESET and CONFIGURE.
C15_PhasesInOrder ==
    IsPrefix(phases, PhaseOrder)

\* C15 witness: a TestCase has gone through every phase.
C15_Witness ==
    pc = "p4_write" /\ phases = PhaseOrder

\* C16: the command of a TestCase is sent only after reset_simulation has
\* succeeded in that TestCase.
C16_CommandOnlyAfterSimReset ==
    pc \in {"rt_command", "rt_cmdlog"} => simReset = "ok"

\* A TestCase of the given type is in progress.
Running(test_type) ==
    test_num <= Len(test_matrix) /\ case.test_type = test_type

\* The Sample carries a scope ratio of at least the target.
ScopeReached(sample) ==
    /\ "simulation_state" \in DOMAIN sample
    /\ sample.simulation_state.scopeRatio >= ScopeTarget

\* The Sample carries a deployed rode of at most epsilon.
RodeRetrieved(sample) ==
    /\ "simulation_state" \in DOMAIN sample
    /\ sample.simulation_state.rodeDeployed <= RodeEpsilon

\* The positions from which one more Sample may be collected.
NextTickPcs == {"sl_cond", "sl_sample"}

\* C17: in an autoDrop TestCase only the last Sample can have a scope ratio
\* of at least 5.0, the loop never goes on to another tick once a Sample has
\* one, and completion is signalled only with such a Sample as the latest.
C17_DropCompletesAtFirstScope ==
    Running("autoDrop") =>
        /\ \A i \in 1..(Len(samples) - 1) : ~ScopeReached(samples[i])
        /\ pc \in NextTickPcs =>
               \A i \in DOMAIN samples : ~ScopeReached(samples[i])
        /\ endReason = "completed" =>
               Len(samples) > 0 /\ ScopeReached(Last(samples))

\* C17 witness: an autoDrop loop has signalled completion at its second
\* Sample, the first having been below the target.
C17_Witness ==
    /\ Running("autoDrop")
    /\ pc = "p4_log"
    /\ endReason = "completed"
    /\ Len(samples) = 2
    /\ "simulation_state" \in DOMAIN samples[1]
    /\ ScopeReached(samples[2])

\* C18: in an autoRetrieve TestCase only the last Sample can have a deployed
\* rode of at most epsilon, the loop never goes on to another tick once a
\* Sample has one, and completion is never signalled at a Sample whose rode
\* reading is above epsilon.
C18_RetrieveCompletesAtFirstRode ==
    Running("autoRetrieve") =>
        /\ \A i \in 1..(Len(samples) - 1) : ~RodeRetrieved(samples[i])
        /\ pc \in NextTickPcs =>
               \A i \in DOMAIN samples : ~RodeRetrieved(samples[i])
        /\ endReason = "completed" =>
               /\ Len(samples) > 0
               /\ "simulation_state" \in DOMAIN Last(samples) =>
                      RodeRetrieved(Last(samples))

\* C18 witness: an autoRetrieve loop has signalled completion at its second
\* Sample, the first having had rode out.
C18_Witness ==
    /\ Running("autoRetrieve")
    /\ pc = "p4_log"
    /\ endReason = "completed"
    /\ Len(samples) = 2
    /\ "simulation_state" \in DOMAIN samples[1]
    /\ RodeRetrieved(samples[2])

\* C19: in every record written under raw_data/, elapsed_sec does not
\* decrease along the samples.
C19_ElapsedNonDecreasing ==
    \A r \in DOMAIN raw_data :
        \A i, j \in DOMAIN raw_data[r].samples :
            i < j => raw_data[r].samples[i].elapsed_sec
                         <= raw_data[r].samples[j].elapsed_sec

\* C19 witness: a record holds two Samples with a failed read between them.
C19_Witness ==
    \E r \in DOMAIN raw_data :
        /\ Len(raw_data[r].samples) = 2
        /\ raw_data[r].samples[2].elapsed_sec
               = raw_data[r].samples[1].elapsed_sec + 2

\* C20: a tick makes one collect_sample attempt and then sleeps: it appends
\* one Sample or, when the attempt failed, leaves samples and the way the
\* loop will end as they were; and the termination check after a failed
\* tick does not end the loop (only an interrupt does).
C20_OneAttemptPerTick ==
    [][/\ pc = "sl_sample" =>
             /\ pc' = "sl_sleep"
             /\ elapsed' = elapsed
             /\ \/ samples' = samples /\ endReason' = endReason
                \/ /\ Len(samples') = Len(samples) + 1
                   /\ IsPrefix(samples, samples')
                   /\ misses' = 0
       /\ (pc = "sl_check" /\ misses > 0) =>
             \/ pc' = "sl_cond" /\ endReason' = endReason
             \/ pc' = "sl_int"]_vars

\* C20 witness: after one Sample a tick failed, and the loop is at its next
\* tick.
C20_Witness ==
    /\ pc = "sl_sample"
    /\ Len(samples) = 1
    /\ misses = 1
    /\ elapsed = 2

\* The n-th combination of the matrix, wind speed outermost, then depth, then
\* operation type, with its test number.
Expected(n) ==
    [test_num |-> n,
     wind |-> WIND_SPEEDS[((n - 1) \div (Len(DEPTHS) * Len(TEST_TYPES))) + 1],
     depth |-> DEPTHS[(((n - 1) \div Len(TEST_TYPES)) % Len(DEPTHS)) + 1],
     test_type |-> TEST_TYPES[((n - 1) % Len(TEST_TYPES)) + 1]]

\* C21: the n-th call of run_test is for the n-th combination of the matrix
\* in the order wind speed, depth, operation type, and carries test number n;
\* when run_all_tests reaches its summary every combination has been run.
C21_MatrixOrder ==
    /\ \A n \in DOMAIN mx_ran : mx_ran[n] = Expected(n)
    /\ Len(mx_ran) <= Total(WIND_SPEEDS, DEPTHS)
    /\ mx_pc \in {"mx_summary", "mx_done"} =>
           Len(mx_ran) = Total(WIND_SPEEDS, DEPTHS)

\* C21 witness: the summary is reached after the whole matrix.
C21_Witness ==
    mx_pc = "mx_summary" /\ Len(mx_ran) = Total(WIND_SPEEDS, DEPTHS)

\* C22: every record written under raw_data/ has the TestCase metadata, the
\* samples and a summary block, and the record just written holds exactly
\* the Samples of its TestRun, in order.
C22_RecordHasMetadataSamplesSummary ==
    /\ \A r \in DOMAIN raw_data :
           {"test_metadata", "samples", "summary"} \subseteq DOMAIN raw_data[r]
    /\ pc = "p4_saved" => Last(raw_data).samples = samples

\* C23: whatever the device answers and whatever fails, a session that the
\* operator does not interrupt ends, and ends at the final summary of
\* run_all_tests.
C23_SessionEndsAtSummary ==
    <>(pc = "exit_ok" \/ interrupted)

C25_WrittenRecordsKept ==
    [][\A n \in DOMAIN files : n \in DOMAIN files' /\ files'[n] = files[n]]_vars

\* C25 witness: the second TestCase has written its record and the first
\* one's is still there.
C25_Witness ==
    /\ pc = "p4_saved"
    /\ test_num = 2
    /\ Cardinality(DOMAIN files) = 2

\* C26: once setup_session has run, every step leaves what TEST_LOG.md
\* holds as a beginning of what it holds afterwards.
C26_LogAppendOnly ==
    [][log_pc = "ready" => IsPrefix(test_log, test_log')]_vars

\* C26 witness: lines have been logged after the header and PROGRESS.txt
\* has been rewritten.
C26_Witness ==
    /\ log_pc = "ready"
    /\ Len(test_log) = 3
    /\ progress_file = <<"DONE">>

\* C27: a test case whose stop_chain.py or reset_anchor.py exited with
\* failure never gets as far as sending the command.
C27_FailedHelperNeverCommands ==
    pc \in {"rt_command", "rt_cmdlog"} => helperExit # "failed"

\* C28: when the k-th call of run_test has returned, tests_completed = k and
\* the k calls have each counted once as passed or as failed.
C28_EachReturnCountsOnce ==
    pc = "ra_next" =>
        /\ tests_completed = test_num
        /\ tests_passed + tests_failed = test_num

\* The second call has returned, one call passed and one failed.
C28_Witness ==
    /\ pc = "ra_next"
    /\ test_num = 2
    /\ tests_passed = 1
    /\ tests_failed = 1

\* C29: completion is signalled only when the latest Sample carries a
\* simulator state.
C29_CompletionNeedsSimState ==
    endReason = "completed" =>
        /\ Len(samples) > 0
        /\ "simulation_state" \in DOMAIN Last(samples)

\* C30: a tick whose position, speed and heading reads all succeeded yields
\* a Sample, whatever the values read.
C30_AllReadsGiveSample ==
    cs_pc = "done" =>
        (cs_reads.pos # None /\ cs_reads.speed # None
             /\ cs_reads.heading # None
         => cs_sample # EmptyDict)

\* C31: the autoRetrieve test case of a pair sends its command without the
\* anchor having been reset to 0 m since the pair's autoDrop sampling.
C31_RetrieveStartsFromDroppedRode ==
    Running("autoRetrieve") /\ pc \in {"rt_command", "rt_cmdlog"} =>
        ~rodeReset

\* C32: the session never ends with a command accepted and no stop sent
\* after it.
C32_StoppedBeforeSessionEnds ==
    pc \in ExitPcs => ~unstopped

\* C33: reset_anchor.py reports success exactly when its PUT was accepted
\* and a poll, the tenth at the latest, read under 0.5 m; it reports at that
\* poll, and it reports failure after an accepted PUT only when ten polls
\* have been made, the failed reads among them.
C33_ResetVerifiedWithinTenPolls ==
    /\ ra_attempt <= VerifyPolls
    /\ ra_misses <= ra_attempt
    /\ ra_result = "True" <=>
           /\ ra_put
           /\ ra_attempt \in 1..VerifyPolls
           /\ ra_last # None
           /\ ra_last[1] < ResetThreshold
    /\ ra_pc = "poll" => ra_result = "none"
    /\ ra_result = "False" /\ ra_put => ra_attempt = VerifyPolls

\* Success at the tenth poll, after failed reads.
C33_Witness ==
    /\ ra_result = "True"
    /\ ra_attempt = VerifyPolls
    /\ ra_misses > 0

\* Failure after ten polls of which some read nothing.
C33_WitnessFailure ==
    /\ ra_result = "False"
    /\ ra_put
    /\ ra_misses \in 1..(VerifyPolls - 1)

\* C34: a collection loop ends early exactly when the last 10 reads in a row
\* returned no data; its count is the number of failed reads since the last
\* good one, so failed reads with a good one between them never add up.
C34_EarlyExitAtTenMissesInARow ==
    /\ consecutive_none_count = lg_run
    /\ lg_end = "early" <=> lg_run >= MaxConsecutiveNone
    /\ lg_run <= MaxConsecutiveNone

\* The loop ran its whole duration although ten reads failed in all.
C34_Witness ==
    /\ lg_end = "duration"
    /\ lg_missed >= MaxConsecutiveNone

\* The loop ended early.
C34_WitnessEarly == lg_end = "early" /\ lg_elapsed > 0

\* The step is a pass of a collection loop that called check_and_engage.
MotorChecked == last_motor_action' # last_motor_action

\* C38: check_and_engage requests an engage only with the motor not active
\* and the speed under the threshold, a stop only with the motor active and
\* the speed over threshold + 0.1, changes nothing for a speed from the
\* threshold to threshold + 0.1, and keeps motor_engagement_count, the
\* length of motor_engagement_times and the number of engage requests equal.
C38_MonitorRequests ==
    [][MotorChecked =>
        LET request == motor_log'.request
            boat_speed == motor_log'.boat_speed
            threshold == speed_monitor.min_speed_threshold
        IN  /\ request \in {"motor_backward", "motor_forward"} =>
                   /\ ~speed_monitor.motor_active
                   /\ boat_speed < threshold
                   /\ motor_log'.engages = motor_log.engages + 1
            /\ request = "motor_stop" =>
                   /\ speed_monitor.motor_active
                   /\ boat_speed > threshold + DisengageBand
            /\ request = "none" => motor_log'.engages = motor_log.engages
            /\ boat_speed \in threshold..(threshold + DisengageBand) =>
                   /\ request = "none"
                   /\ speed_monitor' = speed_monitor
            /\ speed_monitor'.motor_engagement_count = motor_log'.engages
            /\ Len(speed_monitor'.motor_engagement_times)
                   = motor_log'.engages]_vars

\* The motor has been engaged twice and has just been stopped again.
C38_Witness ==
    /\ lg_pc = "loop"
    /\ motor_log.engages = 2
    /\ motor_log.request = "motor_stop"
    /\ speed_monitor.motor_engagement_count = 2

\* C39: motor_active is set only while the latest engage request has been
\* acknowledged by the simulator and no stop was requested since.
C39_ActiveOnlyWhenAcknowledged ==
    lg_pc \in {"loop", "done"} =>
        (speed_monitor.motor_active => motor_log.acknowledged)

\* C35: after an autoDrop test that did not reach the target scope, the
\* next test run is that of the first wind speed, 15 kn.
C35_IncompleteRestartsAtFirstWind ==
    \A i \in 1..(Len(su_tested) - 1) :
        su_tested[i].outcome # "complete" =>
            su_tested[i + 1].wind = LegacyWinds[1]

\* C36: run_single_test returns True for a run whose child runs its whole
\* 240 s collection and whose every position read shows the boat moving.
C36_FullRunReturnsTrue ==
    rv_pc = "done" /\ FullRun(rv_child_exit) /\ ~rv_still =>
        rv_result = "True"

\* C37: a scenario is reported PASS only if its function returned True, and
\* main reports failure when a scenario returned False.
C37_PassOnlyWhenScenarioTrue ==
    /\ \A i \in DOMAIN sc_results :
          Reported(sc_results[i]) => sc_ends[i] = "True"
    /\ sc_pc = "done" /\ (\E i \in DOMAIN sc_ends : sc_ends[i] = "False")
          => sc_main = "False"

====
